---- MODULE Spec2Model ----
(***************************************************************************)
(* Extraction pipeline of the ESG platform: the parser result              *)
(* (apps/files/file_parser.py), the ExtractedFileData record and its       *)
(* lifecycle in the upload signal handler (apps/files/models.py) and in    *)
(* the process_existing_files management command, and the per-company      *)
(* aggregation update_company_metrics_cache.                               *)
(*                                                                         *)
(* Conventions.  An optional value is a sequence: << >> is None and <<v>>  *)
(* is the value v.  Floats that the code only copies are integers.  A      *)
(* confidence score is an integer in thousandths of a percent.  A mean is  *)
(* an exact fraction <<numerator, denominator>> in lowest terms.           *)
(***************************************************************************)
EXTENDS Integers, Sequences, FiniteSets, TLC

\* ------------------------------------------------------------------ bounds
\* The number of attachments, and the number of transient database / cache
\* errors raised in one behaviour.
NumAttachments == 3
MaxFaults == 1

\* The number of steps of the clock in the behaviours that have a clock.
MaxTicks == 3

\* ------------------------------------------------------- optional values
None == << >>

Some(v) == <<v>>

IsNone(x) == x = << >>

\* Python truthiness of an optional number: None and 0 are falsy.
Truthy(x) == x # << >> /\ x[1] # 0

\* ------------------------------------------------- ExtractedData (parser)
\* The fourteen metric fields of the dataclass.
MetricFields ==
    {"energy_consumption_kwh", "water_usage_liters", "waste_generated_kg",
     "carbon_emissions_tco2", "renewable_energy_percentage",
     "total_employees", "training_hours", "safety_incidents",
     "employee_satisfaction_score", "diversity_ratio",
     "board_meetings", "compliance_score", "audit_findings", "policy_updates"}

\* The quick-access columns of ExtractedFileData.
QuickFields ==
    {"energy_consumption_kwh", "water_usage_liters", "waste_generated_kg",
     "carbon_emissions_tco2", "renewable_energy_percentage",
     "total_employees", "training_hours", "safety_incidents",
     "employee_satisfaction_score", "compliance_score", "board_meetings"}

\* The seven fields _calculate_confidence looks at.
CheckedFields ==
    {"energy_consumption_kwh", "water_usage_liters", "waste_generated_kg",
     "carbon_emissions_tco2", "total_employees", "training_hours",
     "compliance_score"}

\* ExtractedData(file_name, file_type, extraction_date, extraction_method,
\* confidence_score=0.0): every metric None, no text, no tables.
ExtractedData(name, ftype, method) ==
    [file_name |-> name, file_type |-> ftype, extraction_method |-> method,
     confidence_score |-> 0,
     m |-> [f \in MetricFields |-> None],
     raw_text |-> None, tables |-> None]

\* ------------------------------------------------------------ file content
\* A text is a sequence of tokens [k, n].  The token kinds are the things the
\* regular expressions of _extract_esg_metrics tell apart:
\*   "kwh"       a number n followed by kwh/mwh/kilowatt
\*   "liters"    a number n followed by liters/gallons/m3/cubic meters
\*   "kg"        a number n followed by kg/tons
\*   "tco2"      a number n followed by tco2
\*   "employees" employees/staff/workforce followed by the integer n
\*   "training"  "training hours" followed by the number n
\*   "pct"       a number n followed by %
\*   "renewable", "satisfaction", "compliance"   the keyword itself
\*   "pad"       n characters that match nothing
\*   "errmsg"    an error description ("Error: ...") of n characters
\*   "libmsg"    the "... libraries not available" sentence, n characters
\*   "label"     "Simple parser - file: <name>", n characters
TokLen(t) == IF t.k \in {"pad", "errmsg", "libmsg", "label"} THEN t.n ELSE 10

RECURSIVE TextLen(_)
TextLen(text) ==
    IF text = << >> THEN 0 ELSE TokLen(Head(text)) + TextLen(Tail(text))

\* The numbers of the tokens of kind k, in document order (re.finditer).
RECURSIVE Matches(_, _)
Matches(text, k) ==
    IF text = << >> THEN << >>
    ELSE IF Head(text).k = k THEN <<Head(text).n>> \o Matches(Tail(text), k)
    ELSE Matches(Tail(text), k)

HasWord(text, w) == \E i \in 1..Len(text) : text[i].k = w

\* A column name is a sequence of word pieces; LowerWord is str.lower() on
\* one piece and Contains is Python's `w in key_lower`.
LowerWord(w) ==
    CASE w = "Energy" -> "energy"
      [] w = "kWh" -> "kwh"
      [] w = "Water" -> "water"
      [] w = "Waste" -> "waste"
      [] w = "Employee" -> "employee"
      [] w = "Count" -> "count"
      [] OTHER -> w

Contains(name, w) == \E i \in 1..Len(name) : LowerWord(name[i]) = w

\* The first element of a sequence of numbers that satisfies P, or None.
RECURSIVE FirstIn(_, _, _)
FirstIn(nums, lo, hi) ==
    IF nums = << >> THEN None
    ELSE IF lo <= Head(nums) /\ Head(nums) <= hi THEN Some(Head(nums))
    ELSE FirstIn(Tail(nums), lo, hi)

\* The first non-zero element of a sequence of numbers, or None: the loop
\*   for match in ...: if value and not data.x: data.x = value
\* started with data.x falsy keeps exactly this one.
RECURSIVE FirstNonZero(_)
FirstNonZero(nums) ==
    IF nums = << >> THEN None
    ELSE IF Head(nums) # 0 THEN Some(Head(nums))
    ELSE FirstNonZero(Tail(nums))

\* if value and not data.<f>: data.<f> = value
SetIfUnset(data, f, value) ==
    IF Truthy(value) /\ ~Truthy(data.m[f])
    THEN [data EXCEPT !.m[f] = value]
    ELSE data

\* The percentage block: keyword anywhere in the text, field still falsy,
\* first percentage inside [lo, hi].
SetPercentage(data, text, word, f, lo, hi) ==
    LET pcts == Matches(text, "pct")
        hit == FirstIn(pcts, lo, hi)
    IN IF pcts # << >> /\ HasWord(text, word) /\ ~Truthy(data.m[f])
          /\ hit # None
       THEN [data EXCEPT !.m[f] = hit]
       ELSE data

\* UniversalFileParser._extract_esg_metrics
ExtractEsgMetrics(data, text) ==
    IF text = << >> THEN data
    ELSE
    LET d1 == SetIfUnset(data, "energy_consumption_kwh",
                         FirstNonZero(Matches(text, "kwh")))
        d2 == SetIfUnset(d1, "water_usage_liters",
                         FirstNonZero(Matches(text, "liters")))
        d3 == SetIfUnset(d2, "waste_generated_kg",
                         FirstNonZero(Matches(text, "kg")))
        d4 == SetIfUnset(d3, "carbon_emissions_tco2",
                         FirstNonZero(Matches(text, "tco2")))
        d5 == SetIfUnset(d4, "total_employees",
                         FirstNonZero(Matches(text, "employees")))
        d6 == SetIfUnset(d5, "training_hours",
                         FirstNonZero(Matches(text, "training")))
        d7 == SetPercentage(d6, text, "renewable",
                            "renewable_energy_percentage", 0, 100)
        d8 == SetPercentage(d7, text, "satisfaction",
                            "employee_satisfaction_score", 50, 100)
        d9 == SetPercentage(d8, text, "compliance", "compliance_score", 0, 100)
    IN d9

\* A score that counts the checked fields left null instead of the ones
\* set: what _calculate_confidence would be with "is None" for "is not
\* None".
ConfidenceOfNulls(data) ==
    LET n == Cardinality({f \in CheckedFields : data.m[f] = None})
        t == IF data.raw_text # None /\ TextLen(data.raw_text[1]) > 100
             THEN 1 ELSE 0
        b == IF data.tables # None /\ Len(data.tables[1]) > 0 THEN 1 ELSE 0
        halves == 2 * n + t + b
        confidence == (halves * 100000) \div (2 * (Cardinality(CheckedFields) + 1))
    IN IF confidence < 100000 THEN confidence ELSE 100000

\* UniversalFileParser._calculate_confidence, in thousandths of a percent:
\* (score / (fields_checked + 1)) * 100 with score counted in halves.
CalculateConfidence(data) ==
    LET n == Cardinality({f \in CheckedFields : data.m[f] # None})
        t == IF data.raw_text # None /\ TextLen(data.raw_text[1]) > 100
             THEN 1 ELSE 0
        b == IF data.tables # None /\ Len(data.tables[1]) > 0 THEN 1 ELSE 0
        halves == 2 * n + t + b
        confidence == (halves * 100000) \div (2 * (Cardinality(CheckedFields) + 1))
    IN IF confidence < 100000 THEN confidence ELSE 100000

\* UniversalFileParser._create_empty_result
CreateEmptyResult(name, status) ==
    [ExtractedData(name, status, "none") EXCEPT
        !.raw_text = Some(<<[k |-> "errmsg", n |-> 20]>>)]

\* UniversalFileParser._parse_text
ParseText(file) ==
    LET data == ExtractedData(file.name, "text", "text_extraction")
    IN IF ~file.readable
       THEN [data EXCEPT !.raw_text = Some(<<[k |-> "errmsg", n |-> 30]>>)]
       ELSE LET d1 == [data EXCEPT !.raw_text = Some(file.text)]
                d2 == ExtractEsgMetrics(d1, file.text)
            IN [d2 EXCEPT !.confidence_score = CalculateConfidence(d2)]

\* ------------------------------------------------------------ spreadsheets
\* A sheet is a sequence of columns [name, typ, vals]: name is the header as
\* word pieces, typ the Python type of the header cell ("str", "int" or
\* "date") and vals the cells, None for an empty (NaN) cell.
NumRows(cols) == IF cols = << >> THEN 0 ELSE Len(cols[1].vals)

\* df.to_dict('records'): one record per row, a sequence of <<key, value>>
\* pairs in column order; a key is [name, typ].
ToRecords(cols) ==
    [r \in 1..NumRows(cols) |->
        [c \in 1..Len(cols) |->
            <<[name |-> cols[c].name, typ |-> cols[c].typ], cols[c].vals[r]>>]]

\* str() of an integer header cell.
HeaderNumber(w) ==
    CASE w = "2023" -> 2023
      [] w = "2024" -> 2024
      [] OTHER -> 0

\* The header line of df.to_string(): the column names in order, blanks
\* between them.  An integer header followed by a column named kWh reads
\* "2024  kWh", which the energy pattern matches; nothing else in the
\* names of the model is a number followed by a unit.
RECURSIVE HeaderTokens(_)
HeaderTokens(cols) ==
    IF Len(cols) < 2 THEN << >>
    ELSE (IF cols[1].typ = "int" /\ LowerWord(cols[2].name[1]) = "kwh"
          THEN <<[k |-> "kwh", n |-> HeaderNumber(cols[1].name[1])]>>
          ELSE << >>) \o HeaderTokens(Tail(cols))

\* df.to_string(): header line and one line per row; the cells are bare
\* numbers, so no row is a number followed by a unit.
DfToString(cols) ==
    IF cols = << >> THEN << >>
    ELSE HeaderTokens(cols)
         \o <<[k |-> "pad", n |-> 10 * Len(cols) * (NumRows(cols) + 1)]>>

RECURSIVE SumCells(_)
SumCells(vals) ==
    IF vals = << >> THEN 0
    ELSE (IF Head(vals) = None THEN 0 ELSE Head(vals)[1]) + SumCells(Tail(vals))

RECURSIVE MaxCells(_)
MaxCells(vals) ==
    IF vals = << >> THEN 0
    ELSE LET h == IF Head(vals) = None THEN 0 ELSE Head(vals)[1]
             r == MaxCells(Tail(vals))
         IN IF h > r THEN h ELSE r

AllNa(vals) == \A i \in 1..Len(vals) : vals[i] = None

\* One column of UniversalFileParser._extract_from_dataframe.
ScanColumn(data, col) ==
    IF AllNa(col.vals) THEN data
    ELSE IF Contains(col.name, "energy") \/ Contains(col.name, "kwh")
    THEN IF SumCells(col.vals) > 0
         THEN SetIfUnset(data, "energy_consumption_kwh", Some(SumCells(col.vals)))
         ELSE data
    ELSE IF Contains(col.name, "water")
    THEN IF SumCells(col.vals) > 0
         THEN SetIfUnset(data, "water_usage_liters", Some(SumCells(col.vals)))
         ELSE data
    ELSE IF Contains(col.name, "waste")
    THEN IF SumCells(col.vals) > 0
         THEN SetIfUnset(data, "waste_generated_kg", Some(SumCells(col.vals)))
         ELSE data
    ELSE IF Contains(col.name, "employee")
    THEN IF MaxCells(col.vals) > 0
         THEN SetIfUnset(data, "total_employees", Some(MaxCells(col.vals)))
         ELSE data
    ELSE data

\* UniversalFileParser._extract_from_dataframe
RECURSIVE ExtractFromDataframe(_, _)
ExtractFromDataframe(data, cols) ==
    IF cols = << >> THEN data
    ELSE ExtractFromDataframe(ScanColumn(data, Head(cols)), Tail(cols))

\* _parse_excel with the scan of the text before the scan of the columns.
ParseExcelTextFirst(file) ==
    LET data == ExtractedData(file.name, "excel", "excel_extraction")
    IN IF ~file.readable
       THEN [data EXCEPT !.raw_text = Some(<<[k |-> "errmsg", n |-> 30]>>)]
       ELSE LET text == <<[k |-> "pad", n |-> 10]>> \o DfToString(file.cols)
                d1 == [data EXCEPT !.tables = Some(ToRecords(file.cols)),
                                   !.raw_text = Some(text)]
                d2 == ExtractEsgMetrics(d1, text)
                d3 == ExtractFromDataframe(d2, file.cols)
            IN [d3 EXCEPT !.confidence_score = CalculateConfidence(d3)]

\* UniversalFileParser._parse_excel for a workbook of one sheet, pandas
\* installed.
ParseExcel(file) ==
    LET data == ExtractedData(file.name, "excel", "excel_extraction")
    IN IF ~file.readable
       THEN [data EXCEPT !.raw_text = Some(<<[k |-> "errmsg", n |-> 30]>>)]
       ELSE LET text == <<[k |-> "pad", n |-> 10]>> \o DfToString(file.cols)
                d1 == ExtractFromDataframe(data, file.cols)
                d2 == [d1 EXCEPT !.tables = Some(ToRecords(file.cols)),
                                 !.raw_text = Some(text)]
                d3 == ExtractEsgMetrics(d2, text)
            IN [d3 EXCEPT !.confidence_score = CalculateConfidence(d3)]

\* ------------------------------------------------------------- parse_file
\* A call parse_file(file_path, file_obj).  path is the file name cut at
\* its dots, the stem first and every extension as written; obj is the
\* file object: "file" one that reads, "unreadable" one whose read()
\* raises (the file is gone from the storage), "missing" a falsy one (a
\* FieldFile without a name, or None); kind says what the bytes are:
\* "valid" an instance of the format the extension claims, "text" text
\* that is not, "garbage" bytes that are neither; text is what the format's
\* library extracts from a valid file and what decode('utf-8',
\* errors='ignore') leaves of any other; cols the sheet of a valid
\* spreadsheet; pairs the (name, cell) pairs of a valid file, in document
\* order: the cells of the tables of a PDF or DOCX under their headers, the
\* flattened keys of a JSON or XML document; libs the optional libraries
\* installed; pos the read position of the file object when it is handed
\* over, "start" or "end".
Libraries == {"pdfplumber", "PyPDF2", "pandas", "ocr", "docx"}

\* Path(file_path).suffix: the last extension, "" when there is none.
Suffix(path) == IF Len(path) > 1 THEN path[Len(path)] ELSE ""

\* str.lower() on an extension.
Lower(ext) ==
    CASE ext = ".PDF" -> ".pdf"
      [] ext = ".XLS" -> ".xls"
      [] ext = ".Jpeg" -> ".jpeg"
      [] ext = ".Csv" -> ".csv"
      [] ext = ".TXT" -> ".txt"
      [] OTHER -> ext

\* An extension taken as it is written.
SuffixAsWritten(path) == Suffix(path)

\* file_extension = Path(file_path).suffix.lower()
FileExtension(path) == Lower(Suffix(path))

\* self.supported_formats: the parser function of each extension.
SupportedFormats ==
    [ext \in {".pdf", ".xlsx", ".xls", ".csv", ".docx", ".doc", ".png",
              ".jpg", ".jpeg", ".txt", ".json", ".xml"} |->
        CASE ext = ".pdf" -> "_parse_pdf"
          [] ext \in {".xlsx", ".xls"} -> "_parse_excel"
          [] ext = ".csv" -> "_parse_csv"
          [] ext = ".docx" -> "_parse_docx"
          [] ext = ".doc" -> "_parse_doc"
          [] ext \in {".png", ".jpg", ".jpeg"} -> "_parse_image"
          [] ext = ".txt" -> "_parse_text"
          [] ext = ".json" -> "_parse_json"
          [] OTHER -> "_parse_xml"]

\* The file as the parsers of text and spreadsheets take it.
AsFile(inp) ==
    [name |-> inp.name, ext |-> FileExtension(inp.path),
     readable |-> inp.obj = "file", text |-> inp.text, cols |-> inp.cols]

\* An except-branch that marked the result as an error: file_type and
\* extraction_method "error" next to the message.
ErrorMarked(data) ==
    [data EXCEPT !.file_type = "error", !.extraction_method = "error",
                 !.raw_text = Some(<<[k |-> "errmsg", n |-> 30]>>)]

\* except Exception as e: extracted_data.raw_text = f"Error: {str(e)}"
ErrorText(data) == [data EXCEPT !.raw_text = Some(<<[k |-> "errmsg", n |-> 30]>>)]

\* The scan of a text and the score, as every parser ends.
ScanText(data, text) ==
    LET d1 == [data EXCEPT !.raw_text = Some(text)]
        d2 == ExtractEsgMetrics(d1, text)
    IN [d2 EXCEPT !.confidence_score = CalculateConfidence(d2)]

\* _parse_pdf, the except-branch (lines 246-271): read the bytes again and
\* decode them with errors='ignore'; when that raises too, the error text.
TextFallback(data, inp) ==
    IF inp.obj # "file" THEN ErrorText(data)
    ELSE ScanText([data EXCEPT !.extraction_method = "text_fallback"], inp.text)

\* if not <library>: extracted_data.raw_text = "<format> parsing libraries
\* not available"; return extracted_data.  The file is not read.
MissingLibrary(data, inp) ==
    [data EXCEPT !.raw_text = Some(<<[k |-> "libmsg", n |-> 35]>>)]

\* ------------------------------------------- table cells and key values
\* A cell is None (null, an empty cell), [k |-> "word"] (a string without
\* a digit) or [k |-> "num", n |-> n, part |-> d]: the number n + d/10, as
\* a number or as a string that float() takes.  n is any integer; d is 0
\* but under the names whose number the code truncates with int().
Num(n) == Some([k |-> "num", n |-> n, part |-> 0])

\* UniversalFileParser._parse_number: the float, None when there is none.
ParseNumber(cell) ==
    IF cell = None \/ cell[1].k # "num" THEN None ELSE cell

\* Python truthiness of what _parse_number returns.
NumTruthy(v) == v # None /\ (v[1].n # 0 \/ v[1].part # 0)

\* float stored as it is / int(parsed_value).
FloatOf(v) == Some(v[1].n)

IntOf(v) == Some(v[1].n)

\* if parsed_value and not data.<f>: data.<f> = parsed_value
SetIfFalsy(data, f, v, stored) ==
    IF NumTruthy(v) /\ ~Truthy(data.m[f])
    THEN [data EXCEPT !.m[f] = stored]
    ELSE data

\* The vocabulary of _extract_from_json (lines 746-770), the metric field
\* a key goes to, "" for none.
KeyField(name) ==
    IF Contains(name, "energy") \/ Contains(name, "kwh") THEN "energy_consumption_kwh"
    ELSE IF Contains(name, "water") THEN "water_usage_liters"
    ELSE IF Contains(name, "waste") THEN "waste_generated_kg"
    ELSE IF Contains(name, "carbon") \/ Contains(name, "co2") THEN "carbon_emissions_tco2"
    ELSE IF Contains(name, "employee") THEN "total_employees"
    ELSE ""

\* The vocabulary of _extract_from_tables (lines 664-692).
TableField(name) ==
    IF Contains(name, "energy") \/ Contains(name, "kwh") THEN "energy_consumption_kwh"
    ELSE IF Contains(name, "water") THEN "water_usage_liters"
    ELSE IF Contains(name, "waste") THEN "waste_generated_kg"
    ELSE IF Contains(name, "carbon") \/ Contains(name, "co2") \/ Contains(name, "emission")
    THEN "carbon_emissions_tco2"
    ELSE IF Contains(name, "employee") /\ (Contains(name, "count") \/ Contains(name, "total"))
    THEN "total_employees"
    ELSE IF Contains(name, "training") /\ Contains(name, "hour") THEN "training_hours"
    ELSE ""

\* One cell of _extract_from_tables: an empty name or a falsy value is
\* skipped; total_employees takes int(parsed_value).
ScanTableEntry(data, pair) ==
    LET f == TableField(pair.name)
        v == ParseNumber(pair.cell)
    IN IF pair.name = << >> \/ pair.cell = None \/ f = "" THEN data
       ELSE SetIfFalsy(data, f, v, IF f = "total_employees" THEN IntOf(v) ELSE FloatOf(v))

\* UniversalFileParser._extract_from_tables
RECURSIVE ExtractFromTables(_, _)
ExtractFromTables(data, pairs) ==
    IF pairs = << >> THEN data
    ELSE ExtractFromTables(ScanTableEntry(data, Head(pairs)), Tail(pairs))

\* The list of dictionaries a PDF or DOCX gives: one row, the header of a
\* cell as its key.
TableRows(pairs) ==
    IF pairs = << >> THEN << >>
    ELSE << [i \in 1..Len(pairs) |->
               <<[name |-> pairs[i].name, typ |-> "str"], pairs[i].cell>>] >>

\* _parse_pdf lines 233-244 and _parse_docx lines 442-453: the text is
\* scanned, then the tables, then the score is computed.
ScanTextThenTables(data, text, pairs) ==
    LET d1 == [data EXCEPT !.raw_text = Some(text),
                           !.tables = Some(TableRows(pairs))]
        d2 == ExtractEsgMetrics(d1, text)
        d3 == ExtractFromTables(d2, pairs)
    IN [d3 EXCEPT !.confidence_score = CalculateConfidence(d3)]

\* UniversalFileParser._parse_pdf: text of the pages by pdfplumber, or by
\* PyPDF2 when pdfplumber is not there or found no text; the tables by
\* pdfplumber.
ParsePdf(inp) ==
    LET data == ExtractedData(inp.name, "pdf", "pdf_extraction")
    IN IF inp.libs \cap {"pdfplumber", "PyPDF2"} = {}
       THEN MissingLibrary(data, inp)
       ELSE IF inp.obj = "file" /\ inp.kind = "valid"
       THEN ScanTextThenTables(data, inp.text,
                IF "pdfplumber" \in inp.libs THEN inp.pairs ELSE << >>)
       ELSE TextFallback(data, inp)

\* UniversalFileParser._parse_excel for a workbook of one sheet.
ParseExcelOf(inp) ==
    LET data == ExtractedData(inp.name, "excel", "excel_extraction")
    IN IF "pandas" \notin inp.libs THEN MissingLibrary(data, inp)
       ELSE IF inp.obj = "file" /\ inp.kind # "valid" THEN ErrorText(data)
       ELSE ParseExcel(AsFile(inp))

\* UniversalFileParser._parse_csv: the bytes are read to find the encoding
\* and pd.read_csv(file_obj) is then given the stream at its end, so it
\* raises EmptyDataError whatever the file holds.
ParseCsv(inp) ==
    LET data == ExtractedData(inp.name, "csv", "csv_extraction")
    IN IF "pandas" \notin inp.libs THEN MissingLibrary(data, inp)
       ELSE ErrorText(data)

\* UniversalFileParser._parse_image: the score of OCR text is times 0.7.
ParseImage(inp) ==
    LET data == ExtractedData(inp.name, "image", "ocr_extraction")
    IN IF "ocr" \notin inp.libs THEN MissingLibrary(data, inp)
       ELSE IF inp.obj # "file" \/ inp.kind # "valid" THEN ErrorText(data)
       ELSE LET d == ScanText(data, inp.text)
            IN [d EXCEPT !.confidence_score = (@ * 7) \div 10]

\* UniversalFileParser._parse_docx
ParseDocx(inp) ==
    LET data == ExtractedData(inp.name, "docx", "docx_extraction")
    IN IF "docx" \notin inp.libs THEN MissingLibrary(data, inp)
       ELSE IF inp.obj # "file" \/ inp.kind # "valid" THEN ErrorText(data)
       ELSE ScanTextThenTables(data, inp.text, inp.pairs)

\* One key of UniversalFileParser._extract_from_json.
ScanKey(data, pair) ==
    LET f == KeyField(pair.name)
        v == ParseNumber(pair.cell)
    IN IF f = "" THEN data
       ELSE SetIfFalsy(data, f, v, IF f = "total_employees" THEN IntOf(v) ELSE FloatOf(v))

\* UniversalFileParser._extract_from_json over the flattened dictionary.
RECURSIVE ExtractFromJson(_, _)
ExtractFromJson(data, pairs) ==
    IF pairs = << >> THEN data
    ELSE ExtractFromJson(ScanKey(data, Head(pairs)), Tail(pairs))

\* UniversalFileParser._parse_json and _parse_xml: raw_text is the
\* document written out again, ten characters a key.
ParseTree(inp, ftype, method) ==
    LET data == ExtractedData(inp.name, ftype, method)
    IN IF inp.obj # "file" \/ inp.kind # "valid" THEN ErrorText(data)
       ELSE LET d1 == [data EXCEPT
                         !.raw_text = Some(<<[k |-> "pad", n |-> 10 * (Len(inp.pairs) + 1)]>>)]
                d2 == ExtractFromJson(d1, inp.pairs)
            IN [d2 EXCEPT !.confidence_score = CalculateConfidence(d2)]

\* parser_func(file_obj, file_path)
ParserFunc(func, inp) ==
    CASE func = "_parse_pdf" -> ParsePdf(inp)
      [] func = "_parse_excel" -> ParseExcelOf(inp)
      [] func = "_parse_csv" -> ParseCsv(inp)
      [] func = "_parse_docx" -> ParseDocx(inp)
      [] func = "_parse_image" -> ParseImage(inp)
      [] func = "_parse_json" -> ParseTree(inp, "json", "json_extraction")
      [] func = "_parse_xml" -> ParseTree(inp, "xml", "xml_extraction")
      [] OTHER -> ParseText(AsFile(inp))

\* The parser function reads the file object (a parser whose library is
\* missing returns before it does).
ParserReads(func, inp) ==
    CASE func = "_parse_pdf" -> inp.libs \cap {"pdfplumber", "PyPDF2"} # {}
      [] func \in {"_parse_excel", "_parse_csv"} -> "pandas" \in inp.libs
      [] func = "_parse_docx" -> "docx" \in inp.libs
      [] func = "_parse_image" -> "ocr" \in inp.libs
      [] OTHER -> TRUE

\* import of the module of the parser.  file_parser.py guards its optional
\* imports (lines 14-44: the name is None when the library is missing), but
\* the annotation df: pd.DataFrame of _extract_from_dataframe (line 694) is
\* evaluated when the class body runs: with pandas missing the import
\* raises AttributeError on an interpreter that evaluates annotations at
\* definition, and goes through on one that does not.  simple_parser.py
\* imports nothing optional.
ImportOutcomes(inp) ==
    IF inp.parser = "universal" /\ "pandas" \notin inp.libs
    THEN {"called", "import_error"}
    ELSE {"called"}

\* The states of a call: "import" (the module of the parser is about to be
\* imported), "import_error", "called", "parser" (the parser function selected
\* is about to run), "except" (an exception has reached the except-branch
\* of parse_file), "returned", "raised" (an exception has left the call).
\* read says whether the file object has been read or the path opened.
Called(inp) ==
    [inp |-> inp, pc |-> "called", func |-> "", read |-> FALSE, result |-> None]

\* Lines 166-180: the extension, the look-up, and open(file_path, 'rb')
\* when the file object is falsy; the name is not a path of a file.
Dispatched(p) ==
    LET ext == FileExtension(p.inp.path)
    IN IF ext \notin DOMAIN SupportedFormats
       THEN [p EXCEPT !.pc = "returned",
                      !.result = Some(CreateEmptyResult(p.inp.name, "unsupported"))]
       ELSE IF p.inp.obj = "missing"
       THEN [p EXCEPT !.pc = "except", !.func = SupportedFormats[ext], !.read = TRUE]
       ELSE [p EXCEPT !.pc = "parser", !.func = SupportedFormats[ext]]

\* What a parser function finds in the file object.  pdfplumber, PyPDF2,
\* pandas.read_excel, python-docx and PIL seek by themselves, the fallback
\* of _parse_pdf and _parse_csv call seek(0); _parse_text (also the
\* parser of .doc), _parse_json and _parse_xml read from the position the
\* stream is at: at its end read() gives b"", which is an empty text and
\* not a JSON or XML document.
Seen(func, inp) ==
    IF inp.pos = "end" /\ inp.obj = "file"
       /\ func \in {"_parse_text", "_parse_doc", "_parse_json", "_parse_xml"}
    THEN [inp EXCEPT !.text = << >>, !.pairs = << >>,
                     !.kind = IF func \in {"_parse_json", "_parse_xml"}
                              THEN "text" ELSE @]
    ELSE inp

\* Lines 175-176: return parser_func(file_obj, file_path).
ParserReturned(p) ==
    [p EXCEPT !.pc = "returned", !.read = ParserReads(p.func, p.inp),
              !.result = Some(ParserFunc(p.func, Seen(p.func, p.inp)))]

\* A call without the try: the exception leaves it.
Propagated(p) == [p EXCEPT !.pc = "raised"]

\* Lines 182-184: except Exception as e: return
\* self._create_empty_result(file_path, "error", str(e)).
Handled(p) ==
    [p EXCEPT !.pc = "returned",
              !.result = Some(CreateEmptyResult(p.inp.name, "error"))]

\* The call run to its end.
RECURSIVE RunCall(_)
RunCall(p) ==
    CASE p.pc = "called" -> RunCall(Dispatched(p))
      [] p.pc = "parser" -> RunCall(ParserReturned(p))
      [] p.pc = "except" -> RunCall(Handled(p))
      [] OTHER -> p

\* The environment: the optional libraries that are installed.
VARIABLE installed

\* The call for an upload: a file of the pipeline, every library installed.
AsInput(file) ==
    [name |-> file.name, path |-> <<file.name, file.ext>>,
     obj |-> IF file.readable THEN "file" ELSE "unreadable",
     kind |-> "valid", text |-> file.text, cols |-> file.cols,
     pairs |-> << >>, libs |-> installed, parser |-> "universal",
     pos |-> "start"]

\* UniversalFileParser.parse_file as the pipeline calls it.
ParseFile(file) == RunCall(Called(AsInput(file))).result[1]

\* ------------------------------------------------------- simple_parser.py
\* SimpleExtractedData(file_name, file_type): the eleven metrics None,
\* confidence_score 50.0, tables [].
SimpleExtractedData(name, ftype) ==
    [file_name |-> name, file_type |-> ftype,
     extraction_method |-> "simple_text_extraction",
     confidence_score |-> 50000,
     m |-> [f \in QuickFields |-> None],
     raw_text |-> None, tables |-> Some(<< >>)]

\* re.search: the first match, whatever its value.
FirstMatch(nums) == IF nums = << >> THEN None ELSE Some(Head(nums))

\* The percentage blocks of _extract_simple_metrics.
SimplePercentage(data, text, word, f, lo, hi) ==
    LET pcts == Matches(text, "pct")
        hit == FirstIn(pcts, lo, hi)
    IN IF pcts # << >> /\ HasWord(text, word) /\ hit # None
       THEN [data EXCEPT !.m[f] = hit]
       ELSE data

\* SimpleFileParser._extract_simple_metrics
ExtractSimpleMetrics(data, text) ==
    IF text = << >> THEN data
    ELSE
    LET first(k) == FirstMatch(Matches(text, k))
        d1 == [data EXCEPT
                 !.m["energy_consumption_kwh"] = first("kwh"),
                 !.m["water_usage_liters"] = first("liters"),
                 !.m["waste_generated_kg"] = first("kg"),
                 !.m["carbon_emissions_tco2"] = first("tco2"),
                 !.m["total_employees"] = first("employees"),
                 !.m["training_hours"] = first("training")]
        d2 == SimplePercentage(d1, text, "renewable",
                               "renewable_energy_percentage", 0, 100)
        d3 == SimplePercentage(d2, text, "satisfaction",
                               "employee_satisfaction_score", 50, 100)
    IN SimplePercentage(d3, text, "compliance", "compliance_score", 0, 100)

\* SimpleFileParser._calculate_simple_confidence, in thousandths of a
\* percent, rounded down: base 30 or 10, plus 70 * found / 11, at most 100.
CalculateSimpleConfidence(data) ==
    LET found == Cardinality({f \in QuickFields : data.m[f] # None})
        base == IF data.raw_text # None /\ TextLen(data.raw_text[1]) > 50
                THEN 30000 ELSE 10000
        confidence == base + (found * 70000) \div Cardinality(QuickFields)
    IN IF confidence < 100000 THEN confidence ELSE 100000

\* The file_type of the simple parser: the last extension, lower-cased,
\* without the dot; 'unknown' for a name without a dot.
SimpleFileType(file) ==
    CASE file.ext = ".txt" -> "txt"
      [] file.ext = ".doc" -> "doc"
      [] file.ext = ".xlsx" -> "xlsx"
      [] file.ext = ".xls" -> "xls"
      [] file.ext = ".bin" -> "bin"
      [] file.ext = ".pdf" -> "pdf"
      [] file.ext = ".csv" -> "csv"
      [] file.ext = ".docx" -> "docx"
      [] file.ext = ".png" -> "png"
      [] file.ext = ".jpg" -> "jpg"
      [] file.ext = ".jpeg" -> "jpeg"
      [] file.ext = ".json" -> "json"
      [] file.ext = ".xml" -> "xml"
      [] file.ext = ".gz" -> "gz"
      [] OTHER -> "unknown"

\* SimpleFileParser.parse_file: read and decode the file, scan the text;
\* a falsy file object gives the text "Simple parser - file: <name>"; when
\* read() raises, raw_text is the error and nothing else is assigned.
\* The bytes of a valid file that is not text decode to text that matches
\* nothing.
SimpleParseFileOf(inp) ==
    LET file == AsFile(inp)
        data == SimpleExtractedData(file.name, SimpleFileType(file))
        text == IF inp.obj = "missing" THEN <<[k |-> "label", n |-> 35]>>
                ELSE IF inp.kind = "valid" /\ file.ext \notin {".txt", ".doc"}
                THEN <<[k |-> "pad", n |-> 200]>>
                ELSE file.text
    IN IF inp.obj = "unreadable"
       THEN [data EXCEPT !.raw_text = Some(<<[k |-> "errmsg", n |-> 30]>>)]
       ELSE LET d1 == [data EXCEPT !.raw_text = Some(text)]
                d2 == ExtractSimpleMetrics(d1, text)
            IN [d2 EXCEPT !.confidence_score = CalculateSimpleConfidence(d2)]

\* SimpleFileParser.parse_file as process_existing_files calls it.
SimpleParseFile(file) == SimpleParseFileOf(AsInput(file))

\* ------------------------------------------------------------------- JSON
\* json.dumps(asdict(self), default=str) raises TypeError when a dict key
\* is not str/int/float/bool/None; default= is not applied to keys.
JsonKeyOk(key) == key.typ \in {"str", "int"}

ToJsonRaises(data) ==
    /\ data.tables # None
    /\ \E r \in 1..Len(data.tables[1]) : \E c \in 1..Len(data.tables[1][r]) :
          ~JsonKeyOk(data.tables[1][r][c][1])

\* json.loads(extracted_data.to_json()): every scalar comes back as it
\* was, every dict key comes back as a string.
ToJson(data) ==
    [file_name |-> data.file_name, file_type |-> data.file_type,
     extraction_method |-> data.extraction_method,
     confidence_score |-> data.confidence_score,
     m |-> data.m,
     raw_text |-> data.raw_text,
     tables |-> IF data.tables = None THEN None
                ELSE Some([r \in 1..Len(data.tables[1]) |->
                        [c \in 1..Len(data.tables[1][r]) |->
                            <<[name |-> data.tables[1][r][c][1].name, typ |-> "str"],
                              data.tables[1][r][c][2]>>]])]

\* ---------------------------------------------------------- the uploads
\* The files that attachments can hold.
Files ==
    << [name |-> "report_a.txt", ext |-> ".txt", readable |-> TRUE,
        text |-> <<[k |-> "kwh", n |-> 800], [k |-> "employees", n |-> 42],
                   [k |-> "training", n |-> 10],
                   [k |-> "renewable", n |-> 0], [k |-> "pct", n |-> 35]>>,
        cols |-> << >>],
       [name |-> "report_b.txt", ext |-> ".txt", readable |-> TRUE,
        text |-> <<[k |-> "pad", n |-> 120], [k |-> "kwh", n |-> 750],
                   [k |-> "training", n |-> 25],
                   [k |-> "compliance", n |-> 0], [k |-> "pct", n |-> 90]>>,
        cols |-> << >>],
       [name |-> "usage.xlsx", ext |-> ".xlsx", readable |-> TRUE,
        text |-> << >>,
        cols |-> << [name |-> <<"Water", "_", "Usage">>, typ |-> "str",
                     vals |-> <<Some(3000), Some(2000)>>],
                    [name |-> <<"2023">>, typ |-> "date",
                     vals |-> <<Some(1), None>>] >>],
       [name |-> "firmware.bin", ext |-> ".bin", readable |-> TRUE,
        text |-> << >>, cols |-> << >>],
       [name |-> "timesheet.txt", ext |-> ".txt", readable |-> TRUE,
        text |-> <<[k |-> "training", n |-> 0], [k |-> "kwh", n |-> 750]>>,
        cols |-> << >>] >>

\* ------------------------------------------------------------------ state
Attachments == 1..NumAttachments

Companies == {1, 2}

\* One upload request per attachment (worker a uploads attachment a) and two
\* invocations of the management command.
UploadWorkers == Attachments

BatchWorkers == {NumAttachments + 1, NumAttachments + 2}

\* One request of the dashboard (enhanced_dashboard_overview).
ReaderWorkers == {NumAttachments + 3}

Workers == UploadWorkers \cup BatchWorkers \cup ReaderWorkers

VARIABLES
    uploadOrder,  \* TaskAttachment rows, oldest uploaded_at first
    fileOf,       \* attachment -> index into Files (TaskAttachment.file)
    companyOf,    \* attachment -> company (TaskAttachment.task.company)
    records,      \* the ExtractedFileData table: a set of rows
    nextPk,       \* the table's AUTOINCREMENT counter
    now,          \* the clock read by auto_now_add
    cache,        \* cache owner -> company -> cached entry (None: no entry)
    faultsLeft,   \* transient database / cache errors still to be raised
    tracing,      \* whether the workers keep the history fields
    wk,           \* worker -> its local state
    past,         \* history: the tables that stood at each time ({}: not kept)
    parse         \* one call of a parser: its input and its result

vars == <<uploadOrder, fileOf, companyOf, records, nextPk, now, cache, faultsLeft,
          tracing, wk, past, parse, installed>>

\* The history after a step: when it is kept, the table the step leaves is
\* added with the time it stands at.
Logged ==
    IF past = {} THEN past
    ELSE past \cup {[t |-> now', rows |-> records']}

\* No parser call is part of the behaviour.
NoParse == << >>

AttachmentRows == {uploadOrder[i] : i \in 1..Len(uploadOrder)}

\* ExtractedFileData.objects.filter(task_attachment=a)
RowsOf(a) == {r \in records : r.att = a}

\* ExtractedFileData(task_attachment=a, processing_status='processing')
\* with the field defaults of the model.
NewRecord(pk, a, date) ==
    [pk |-> pk, att |-> a, processing_status |-> "processing",
     error_message |-> "", extraction_method |-> "", confidence_score |-> 0,
     extracted_json |-> None, extraction_date |-> date,
     cols |-> [f \in QuickFields |-> None]]

\* Lines 108-127 of the handler (83-102 of the command): the assignments
\* made to the in-memory record from the parser's result, in order.  The
\* call of to_json() comes third, so when it raises only extraction_method
\* and confidence_score have been assigned.
CopyHead(inst, data) ==
    [inst EXCEPT !.extraction_method = data.extraction_method,
                 !.confidence_score = data.confidence_score]

\* A copy that forgets the training_hours column.
CopyResultSkipsColumn(inst, data) ==
    [CopyHead(inst, data) EXCEPT
        !.extracted_json = Some(ToJson(data)),
        !.cols = [f \in QuickFields |->
                    IF f = "training_hours" THEN None ELSE data.m[f]],
        !.processing_status = "completed"]

CopyResult(inst, data) ==
    [CopyHead(inst, data) EXCEPT
        !.extracted_json = Some(ToJson(data)),
        !.cols = [f \in QuickFields |-> data.m[f]],
        !.processing_status = "completed"]

\* An except-branch that records the message and leaves the status.
MarkFailedKeepsStatus(inst, msg) == [inst EXCEPT !.error_message = msg]

\* The except-branch: processing_status = 'failed', error_message = str(e).
MarkFailed(inst, msg) ==
    [inst EXCEPT !.processing_status = "failed", !.error_message = msg]

\* Model.save() of an instance that has a primary key: UPDATE ... WHERE
\* pk = inst.pk, and when that matches no row, INSERT.  The INSERT violates
\* the OneToOneField's UNIQUE constraint when the attachment has another row.
SaveInserts(inst) == ~\E r \in records : r.pk = inst.pk

SaveRaisesIntegrity(inst) == SaveInserts(inst) /\ RowsOf(inst.att) # {}

\* The instance after save(): an INSERT runs auto_now_add again.
Saved(inst) ==
    IF SaveInserts(inst) THEN [inst EXCEPT !.extraction_date = now] ELSE inst

RecordsAfterSave(inst) ==
    {r \in records : r.pk # inst.pk} \cup {Saved(inst)}

\* A table without the UNIQUE constraint on task_attachment.
CreateNeverRaises(a) == FALSE

\* A parser whose result depends on how many records the process has made.
ParsedCounting(a) ==
    LET data == ParseFile(Files[fileOf[a]])
    IN [data EXCEPT !.m["safety_incidents"] = Some(nextPk)]

\* file_path = instance.file.path; UniversalFileParser().parse_file(...):
\* a new parser for every attachment, given the attachment's file.
Parsed(a) == ParseFile(Files[fileOf[a]])

\* objects.create(): INSERT; raises IntegrityError when the attachment
\* already has a row.
CreateRaisesIntegrity(a) == RowsOf(a) # {}

\* A transient database or cache error (sqlite's "database is locked", a
\* lost connection) may be raised while the environment has some left.
MayFault == faultsLeft > 0

\* ------------------------------------------------ update_company_metrics_cache
RECURSIVE Gcd(_, _)
Gcd(a, b) == IF b = 0 THEN a ELSE Gcd(b, a % b)

\* The exact value num/den, den > 0, in lowest terms.
Frac(num, den) == <<num \div Gcd(num, den), den \div Gcd(num, den)>>

RECURSIVE SumConfidence(_)
SumConfidence(S) ==
    IF S = {} THEN 0
    ELSE LET r == CHOOSE x \in S : TRUE
         IN r.confidence_score + SumConfidence(S \ {r})

RECURSIVE SumColumn(_, _)
SumColumn(S, f) ==
    IF S = {} THEN 0
    ELSE LET r == CHOOSE x \in S : TRUE
         IN r.cols[f][1] + SumColumn(S \ {r}, f)

\* A filter on the company alone.
AnyStatusRows(rows, company) == {r \in rows : companyOf[r.att] = company}

\* ExtractedFileData.objects.filter(task_attachment__task__company=company,
\*                                  processing_status='completed')
\* over the table `rows`.
CompletedRows(rows, company) ==
    {r \in rows :
        companyOf[r.att] = company /\ r.processing_status = "completed"}

\* .exclude(<f>__isnull=True)
NonNull(S, f) == {r \in S : r.cols[f] # None}

\* An ascending order_by('extraction_date').
EarliestRows(S) == {r \in S : \A x \in S : x.extraction_date >= r.extraction_date}

\* .order_by('-extraction_date').first(): a row with the greatest
\* extraction_date; which one among equal dates is up to the database.
LatestRows(S) == {r \in S : \A x \in S : x.extraction_date <= r.extraction_date}

\* A query that adds the column up.
SumValue(S, f) == {Some(SumColumn(NonNull(S, f), f))}

\* latest = S.exclude(<f>__isnull=True).order_by('-extraction_date').first()
\* and latest.<f>: the values the statement can give.
LatestValue(S, f) == {r.cols[f] : r \in LatestRows(NonNull(S, f))}

SnapshotKeys ==
    {"energy_consumption_kwh", "water_usage_liters", "waste_generated_kg",
     "carbon_emissions_tco2", "total_employees", "training_hours_avg",
     "compliance_score"}

\* The metrics dict as initialised at lines 157-164.
EmptyMetrics ==
    [total_files_processed |-> 0, average_confidence |-> <<0, 1>>,
     vals |-> [k \in SnapshotKeys |-> None]]

\* The queries of the function, in program order.  Each is one statement
\* sent to the database; nothing makes two of them see the same rows.
AggQueries ==
    <<"exists", "count", "avg_confidence", "energy_consumption_kwh",
      "water_usage_liters", "waste_generated_kg", "carbon_emissions_tco2",
      "total_employees", "training_hours_avg", "compliance_score">>

\* The metrics dicts that query q can leave when the table is `rows`.
AfterQuery(rows, q, metrics, company) ==
    LET S == CompletedRows(rows, company)
    IN CASE q = "exists" -> {metrics}
         [] q = "count" ->
              {[metrics EXCEPT !.total_files_processed = Cardinality(S)]}
         [] q = "avg_confidence" ->
              {[metrics EXCEPT !.average_confidence =
                    IF S = {} \/ SumConfidence(S) = 0 THEN <<0, 1>>
                    ELSE Frac(SumConfidence(S), Cardinality(S))]}
         [] q = "training_hours_avg" ->
              LET T == NonNull(S, "training_hours")
              IN IF T = {} \/ SumColumn(T, "training_hours") = 0
                 THEN {metrics}
                 ELSE {[metrics EXCEPT !.vals[q] =
                         Some(Frac(SumColumn(T, "training_hours"), Cardinality(T)))]}
         [] OTHER ->
              IF NonNull(S, q) = {} THEN {metrics}
              ELSE {[metrics EXCEPT !.vals[q] = v] : v \in LatestValue(S, q)}

\* The whole function run against one table: every query sees `rows`.
RECURSIVE AggregateFrom(_, _, _, _)
AggregateFrom(rows, i, metrics, company) ==
    IF i > Len(AggQueries) \/ CompletedRows(rows, company) = {} THEN {metrics}
    ELSE UNION {AggregateFrom(rows, i + 1, m2, company) :
                    m2 \in AfterQuery(rows, AggQueries[i], metrics, company)}

Aggregates(rows, company) == AggregateFrom(rows, 1, EmptyMetrics, company)

\* ---------------------------------------------------------------- workers
\* The local state of a worker: pc is its position, cur the attachment it is
\* working on, inst the in-memory ExtractedFileData instance (None before
\* create), exc the message of the exception being handled, metrics/phase
\* the dict and the position inside update_company_metrics_cache, and for
\* the command: queue the rest of the queryset, processed/errors/total its
\* counters, force/company_id its options.  attempted (the attachments
\* the loop has started on) and final (what the table held for them when
\* the run ended) are history kept for the properties.
IsBatch(w) == w \in BatchWorkers

\* The cache is django's default LocMemCache: one per operating-system
\* process.  The upload requests share the web process (owner 0); every run
\* of the management command is a process of its own.
CacheOwner(w) == IF IsBatch(w) THEN w ELSE 0

CacheOwners == {0} \cup BatchWorkers

\* cache.set(cache_key, metrics, 3600): the timeout in seconds.
TTL == 3600

\* An entry of the cache: the value and the time it was set at.  get()
\* returns the value while the time is before set_at + timeout.
CacheEntry(metrics) == Some([metrics |-> metrics, set_at |-> now])

CacheHit(entry) == entry # None /\ now < entry[1].set_at + TTL

\* The company a call of update_company_metrics_cache is for: the
\* requesting user's company, or the company of the attachment in work.
CompanyOfCall(w) ==
    IF w \in ReaderWorkers THEN wk[w].company_id ELSE companyOf[wk[w].cur]

IdleWorker ==
    [pc |-> "idle", cur |-> 0, inst |-> None, exc |-> "",
     metrics |-> EmptyMetrics, phase |-> 0,
     queue |-> << >>, attempted |-> << >>, processed |-> 0, errors |-> 0,
     force |-> FALSE, company_id |-> 0, total |-> 0, final |-> << >>]

\* A loop whose delete does not look at --force.
NextAttachmentAlwaysDeletes(s) ==
    IF s.queue = << >>
    THEN [s EXCEPT !.pc = "summary", !.cur = 0, !.inst = None, !.exc = ""]
    ELSE [s EXCEPT !.pc = "delete",
                   !.cur = Head(s.queue), !.queue = Tail(s.queue),
                   !.attempted = IF tracing THEN Append(s.attempted, Head(s.queue))
                                 ELSE s.attempted,
                   !.inst = None, !.exc = ""]

\* The command's loop moves on: the next attachment of the queryset, or the
\* statements after the loop.
NextAttachment(s) ==
    IF s.queue = << >>
    THEN [s EXCEPT !.pc = "summary", !.cur = 0, !.inst = None, !.exc = ""]
    ELSE [s EXCEPT !.pc = IF s.force THEN "delete" ELSE "create",
                   !.cur = Head(s.queue), !.queue = Tail(s.queue),
                   !.attempted = IF tracing THEN Append(s.attempted, Head(s.queue))
                                 ELSE s.attempted,
                   !.inst = None, !.exc = ""]

\* The try-body ran to its end: the handler returns; the command counts the
\* attachment as processed (line 115).
ExitOk(w, s) ==
    IF IsBatch(w) THEN NextAttachment([s EXCEPT !.processed = s.processed + 1])
    ELSE [s EXCEPT !.pc = "done", !.inst = None, !.exc = ""]

\* An except-branch without its errors += 1.
ExitHandledUncounted(w, s) ==
    IF IsBatch(w) THEN NextAttachment(s)
    ELSE [s EXCEPT !.pc = "done", !.inst = None, !.exc = ""]

\* The inner except-branch ran to its end (line 124: errors += 1).
ExitHandled(w, s) ==
    IF IsBatch(w) THEN NextAttachment([s EXCEPT !.errors = s.errors + 1])
    ELSE [s EXCEPT !.pc = "done", !.inst = None, !.exc = ""]

\* An exception leaves the inner try/except: the handler lets it out to
\* the caller of TaskAttachment.objects.create(); the command's outer
\* except-branch counts an error (line 130) and the loop goes on.
ExitRaised(w, s) ==
    IF IsBatch(w) THEN NextAttachment([s EXCEPT !.errors = s.errors + 1])
    ELSE [s EXCEPT !.pc = "raised", !.inst = None, !.exc = ""]

\* An exception inside the inner try: control goes to the except-branch.
ToExcept(s, inst, msg) ==
    [s EXCEPT !.pc = "failsave", !.inst = inst, !.exc = msg]

\* views.py upload_attachment: TaskAttachment.objects.create(...) inserts
\* the row (autocommit) and post_save then calls the handler with
\* created=True.
Upload(a) ==
    /\ a \notin AttachmentRows
    /\ wk[a].pc = "idle"
    /\ uploadOrder' = Append(uploadOrder, a)
    /\ wk' = [wk EXCEPT ![a] = [@ EXCEPT !.pc = "create", !.cur = a]]
    /\ UNCHANGED <<past, parse, tracing, installed, fileOf, companyOf, records, nextPk, now, cache, faultsLeft>>

\* ExtractedFileData.objects.create(task_attachment=..., processing_status=
\* 'processing'): models.py 86-89, process_existing_files.py 59-62.
CreateRecord(w) ==
    /\ wk[w].pc = "create"
    /\ ~CreateRaisesIntegrity(wk[w].cur)
    /\ LET row == NewRecord(nextPk, wk[w].cur, now)
       IN /\ records' = records \cup {row}
          /\ wk' = [wk EXCEPT ![w] = [@ EXCEPT !.pc = "save", !.inst = Some(row)]]
    /\ nextPk' = nextPk + 1
    /\ now' = now + 1
    /\ UNCHANGED <<parse, tracing, installed, uploadOrder, fileOf, companyOf, cache, faultsLeft>>
    /\ past' = Logged

\* The same statement raising: IntegrityError (the attachment has a row)
\* or a transient database error.  It stands outside the inner try, and so
\* does the import at line 83 of the handler, just before it.
CreateRecordRaises(w) ==
    /\ wk[w].pc = "create"
    /\ \/ CreateRaisesIntegrity(wk[w].cur) /\ faultsLeft' = faultsLeft
       \/ MayFault /\ faultsLeft' = faultsLeft - 1
       \/ /\ ~IsBatch(w)
          /\ "import_error" \in ImportOutcomes(AsInput(Files[fileOf[wk[w].cur]]))
          /\ faultsLeft' = faultsLeft
    /\ wk' = [wk EXCEPT ![w] = ExitRaised(w, @)]
    /\ UNCHANGED <<past, parse, tracing, installed, uploadOrder, fileOf, companyOf, records, nextPk, now, cache>>

\* The import of the parser, parse_file, the copy into the record and
\* extracted_record.save(): models.py 92-128, process_existing_files.py
\* 65-103.  The command imports file_parser inside the try for the first
\* time, and an exception of the import other than ImportError goes to
\* the except-branch; the handler has imported it at line 83 already.
ParseAndSave(w) ==
    /\ wk[w].pc = "save"
    /\ LET data == Parsed(wk[w].cur)
           inst == wk[w].inst[1]
           full == CopyResult(inst, data)
       IN \/ /\ IsBatch(w)
             /\ "import_error" \in ImportOutcomes(AsInput(Files[fileOf[wk[w].cur]]))
             /\ wk' = [wk EXCEPT ![w] = ToExcept(@, Some(inst), "AttributeError")]
             /\ UNCHANGED <<records, now, faultsLeft>>
          \/ /\ ToJsonRaises(data)
             /\ wk' = [wk EXCEPT ![w] = ToExcept(@, Some(CopyHead(inst, data)), "TypeError")]
             /\ UNCHANGED <<records, now, faultsLeft>>
          \/ /\ ~ToJsonRaises(data)
             /\ SaveRaisesIntegrity(full)
             /\ wk' = [wk EXCEPT ![w] = ToExcept(@, Some(full), "IntegrityError")]
             /\ UNCHANGED <<records, now, faultsLeft>>
          \/ /\ ~ToJsonRaises(data)
             /\ MayFault
             /\ faultsLeft' = faultsLeft - 1
             /\ wk' = [wk EXCEPT ![w] = ToExcept(@, Some(full), "OperationalError")]
             /\ UNCHANGED <<records, now>>
          \/ /\ ~ToJsonRaises(data)
             /\ ~SaveRaisesIntegrity(full)
             /\ records' = RecordsAfterSave(full)
             /\ now' = IF SaveInserts(full) THEN now + 1 ELSE now
             /\ wk' = [wk EXCEPT ![w] = [@ EXCEPT !.pc = "refresh", !.phase = 1,
                                           !.inst = Some(Saved(full)),
                                           !.metrics = EmptyMetrics]]
             /\ UNCHANGED faultsLeft
    /\ UNCHANGED <<parse, tracing, installed, uploadOrder, fileOf, companyOf, nextPk, cache>>
    /\ past' = Logged

\* update_company_metrics_cache(company), one query per step.  After
\* exists() answers False the function goes straight to cache.set.
RefreshQuery(w) ==
    /\ wk[w].pc = "refresh"
    /\ LET company == CompanyOfCall(w)
           q == AggQueries[wk[w].phase]
       IN \E m2 \in AfterQuery(records, q, wk[w].metrics, company) :
            wk' = [wk EXCEPT ![w] =
                     IF (q = "exists" /\ CompletedRows(records, company) = {})
                        \/ wk[w].phase = Len(AggQueries)
                     THEN [@ EXCEPT !.pc = "cache_set", !.phase = 0, !.metrics = m2]
                     ELSE [@ EXCEPT !.phase = @ + 1, !.metrics = m2]]
    /\ UNCHANGED <<past, parse, tracing, installed, uploadOrder, fileOf, companyOf, records, nextPk, now, cache, faultsLeft>>

\* cache.set(cache_key, metrics, 3600), then the try-body's last lines.
RefreshCacheSet(w) ==
    /\ wk[w].pc = "cache_set"
    /\ cache' = [cache EXCEPT ![CacheOwner(w)][CompanyOfCall(w)] = CacheEntry(wk[w].metrics)]
    /\ wk' = [wk EXCEPT ![w] = ExitOk(w, @)]
    /\ UNCHANGED <<past, parse, tracing, installed, uploadOrder, fileOf, companyOf, records, nextPk, now, faultsLeft>>

\* update_company_metrics_cache(company) as one step: every query sees the
\* table as it is now.  The specification of concurrent runs uses this in
\* place of RefreshQuery and RefreshCacheSet; it says nothing about what a
\* snapshot holds when rows change between two of the queries.
RefreshAtomic(w) ==
    /\ wk[w].pc = "refresh"
    /\ \E m \in Aggregates(records, CompanyOfCall(w)) :
         cache' = [cache EXCEPT ![CacheOwner(w)][CompanyOfCall(w)] = CacheEntry(m)]
    /\ wk' = [wk EXCEPT ![w] = ExitOk(w, [@ EXCEPT !.phase = 0])]
    /\ UNCHANGED <<past, parse, tracing, installed, uploadOrder, fileOf, companyOf, records, nextPk, now, faultsLeft>>

\* A query of update_company_metrics_cache, or cache.set, raises: the
\* record was saved as completed and control goes to the except-branch.
RefreshRaises(w) ==
    /\ wk[w].pc \in {"refresh", "cache_set"}
    /\ MayFault
    /\ faultsLeft' = faultsLeft - 1
    /\ wk' = [wk EXCEPT ![w] = ToExcept([@ EXCEPT !.phase = 0], @.inst, "OperationalError")]
    /\ UNCHANGED <<past, parse, tracing, installed, uploadOrder, fileOf, companyOf, records, nextPk, now, cache>>

\* The except-branch: models.py 135-139, process_existing_files.py 117-124.
FailSave(w) ==
    /\ wk[w].pc = "failsave"
    /\ LET failed == MarkFailed(wk[w].inst[1], wk[w].exc)
       IN /\ ~SaveRaisesIntegrity(failed)
          /\ records' = RecordsAfterSave(failed)
          /\ now' = IF SaveInserts(failed) THEN now + 1 ELSE now
          /\ wk' = [wk EXCEPT ![w] = ExitHandled(w, [@ EXCEPT !.inst = Some(Saved(failed))])]
    /\ UNCHANGED <<parse, tracing, installed, uploadOrder, fileOf, companyOf, nextPk, cache, faultsLeft>>
    /\ past' = Logged

\* The save() of the except-branch raises in its turn.
FailSaveRaises(w) ==
    /\ wk[w].pc = "failsave"
    /\ \/ SaveRaisesIntegrity(MarkFailed(wk[w].inst[1], wk[w].exc)) /\ faultsLeft' = faultsLeft
       \/ MayFault /\ faultsLeft' = faultsLeft - 1
    /\ wk' = [wk EXCEPT ![w] = ExitRaised(w, @)]
    /\ UNCHANGED <<past, parse, tracing, installed, uploadOrder, fileOf, companyOf, records, nextPk, now, cache>>

\* ------------------------------------------------ enhanced_dashboard_overview
\* Lines 39-44: cache.get(cache_key); on a hit the cached metrics are the
\* ones the view uses, on a miss it calls update_company_metrics_cache.
DashboardGet(w) ==
    /\ w \in ReaderWorkers
    /\ wk[w].pc = "idle"
    /\ \E c \in Companies :
         LET entry == cache[CacheOwner(w)][c]
         IN wk' = [wk EXCEPT ![w] =
                     IF CacheHit(entry)
                     THEN [@ EXCEPT !.pc = "done", !.company_id = c,
                                    !.metrics = entry[1].metrics]
                     ELSE [@ EXCEPT !.pc = "refresh", !.phase = 1,
                                    !.company_id = c, !.metrics = EmptyMetrics]]
    /\ UNCHANGED <<past, parse, tracing, installed, uploadOrder, fileOf, companyOf, records, nextPk, now, cache, faultsLeft>>

\* The view returns; the next request starts from scratch.
DashboardReturn(w) ==
    /\ w \in ReaderWorkers
    /\ wk[w].pc = "done"
    /\ wk' = [wk EXCEPT ![w] = IdleWorker]
    /\ UNCHANGED <<past, parse, tracing, installed, uploadOrder, fileOf, companyOf, records, nextPk, now, cache, faultsLeft>>

\* Time passes, half a timeout at a step, while no call of
\* update_company_metrics_cache is under way (a call is short).
Tick ==
    /\ now \div (TTL \div 2) < MaxTicks
    /\ \A w \in Workers : wk[w].pc \notin {"refresh", "cache_set"}
    /\ now' = now + TTL \div 2
    /\ UNCHANGED <<parse, tracing, installed, uploadOrder, fileOf, companyOf, records, nextPk, cache, faultsLeft, wk>>
    /\ past' = Logged

\* ------------------------------------------------- process_existing_files
\* The command's queryset (lines 34-42) evaluated now: all attachments,
\* narrowed to a company when --company-id is given, and without --force
\* minus those that have an ExtractedFileData row.
Selected(force, company_id) ==
    {a \in AttachmentRows :
        /\ company_id = 0 \/ companyOf[a] = company_id
        /\ force \/ RowsOf(a) = {}}

\* TaskAttachment.Meta.ordering = ['-uploaded_at']: newest first.
RECURSIVE NewestFirst(_, _)
NewestFirst(order, S) ==
    IF order = << >> THEN << >>
    ELSE LET rest == NewestFirst(Tail(order), S)
         IN IF Head(order) \in S THEN Append(rest, Head(order)) ELSE rest

\* handle() up to line 45: the options and queryset.count().
BatchStart(w) ==
    /\ IsBatch(w)
    /\ wk[w].pc = "idle"
    /\ \E force \in BOOLEAN : \E company_id \in {0} \cup Companies :
         wk' = [wk EXCEPT ![w] = [@ EXCEPT
                    !.pc = "select", !.force = force, !.company_id = company_id,
                    !.total = Cardinality(Selected(force, company_id))]]
    /\ UNCHANGED <<past, parse, tracing, installed, uploadOrder, fileOf, companyOf, records, nextPk, now, cache, faultsLeft>>

\* Line 50: the for statement evaluates the queryset, once.
BatchSelect(w) ==
    /\ IsBatch(w)
    /\ wk[w].pc = "select"
    /\ wk' = [wk EXCEPT ![w] = NextAttachment([@ EXCEPT !.queue =
                 NewestFirst(uploadOrder, Selected(wk[w].force, wk[w].company_id))])]
    /\ UNCHANGED <<past, parse, tracing, installed, uploadOrder, fileOf, companyOf, records, nextPk, now, cache, faultsLeft>>

\* Lines 55-56: with --force, delete the attachment's row.
BatchDelete(w) ==
    /\ IsBatch(w)
    /\ wk[w].pc = "delete"
    /\ records' = records \ RowsOf(wk[w].cur)
    /\ wk' = [wk EXCEPT ![w] = [@ EXCEPT !.pc = "create"]]
    /\ UNCHANGED <<parse, tracing, installed, uploadOrder, fileOf, companyOf, nextPk, now, cache, faultsLeft>>
    /\ past' = Logged

\* The delete raises: the outer except-branch counts an error.
BatchDeleteRaises(w) ==
    /\ IsBatch(w)
    /\ wk[w].pc = "delete"
    /\ MayFault
    /\ faultsLeft' = faultsLeft - 1
    /\ wk' = [wk EXCEPT ![w] = ExitRaised(w, @)]
    /\ UNCHANGED <<past, parse, tracing, installed, uploadOrder, fileOf, companyOf, records, nextPk, now, cache>>

\* What the table holds for each attachment: the status and the quick-access
\* columns of its rows.
TableView ==
    [a \in Attachments |->
        {<<r.processing_status, r.cols>> : r \in RowsOf(a)}]

\* Lines 132-164: the totals, and when processed > 0 the summary queries.
BatchSummary(w) ==
    /\ IsBatch(w)
    /\ wk[w].pc = "summary"
    /\ wk' = [wk EXCEPT ![w] = [@ EXCEPT !.pc = "done",
                                  !.final = IF tracing THEN TableView ELSE @]]
    /\ UNCHANGED <<past, parse, tracing, installed, uploadOrder, fileOf, companyOf, records, nextPk, now, cache, faultsLeft>>

\* A statement outside the loop's try raises (the queryset at lines 44-50,
\* the summary queries at 144-158): the exception leaves handle().
BatchAborts(w) ==
    /\ IsBatch(w)
    /\ \/ wk[w].pc = "select"
       \/ wk[w].pc = "summary" /\ wk[w].processed > 0
    /\ MayFault
    /\ faultsLeft' = faultsLeft - 1
    /\ wk' = [wk EXCEPT ![w] = [@ EXCEPT !.pc = "aborted"]]
    /\ UNCHANGED <<past, parse, tracing, installed, uploadOrder, fileOf, companyOf, records, nextPk, now, cache>>

\* ---------------------------------------------------------- specification
\* Attachments uploaded before the files app was installed have no record.
RECURSIVE Perms(_)
Perms(S) ==
    IF S = {} THEN {<< >>}
    ELSE UNION {{<<x>> \o p : p \in Perms(S \ {x})} : x \in S}

\* Concurrent runs: the upload request of one attachment and two runs of the
\* command race for that attachment's record.  (Rows of different
\* attachments never meet: every statement that writes a row addresses it
\* by its attachment or by its primary key.)  The attachment holds
\* report_b.txt (parsed and saved) or usage.xlsx (to_json raises).
Contended == {1}

Init ==
    /\ installed = Libraries
    /\ uploadOrder \in {<< >>, <<1>>}
    /\ fileOf \in {f \in [Attachments -> {2, 3}] :
                      \A a \in Attachments \ Contended : f[a] = 2}
    /\ companyOf = [a \in Attachments |-> 2 - (a % 2)]
    /\ records = {}
    /\ nextPk = 1
    /\ now = 1
    /\ cache = [o \in CacheOwners |-> [c \in Companies |-> None]]
    /\ faultsLeft = MaxFaults
    /\ tracing = FALSE
    /\ wk = [w \in Workers |-> IdleWorker]
    /\ past = {}
    /\ parse = NoParse

Next ==
    \/ \E a \in Contended : Upload(a)
    \/ \E w \in Workers :
        \/ CreateRecord(w)
        \/ CreateRecordRaises(w)
        \/ ParseAndSave(w)
        \/ RefreshAtomic(w)
        \/ RefreshRaises(w)
        \/ FailSave(w)
        \/ FailSaveRaises(w)
        \/ BatchStart(w)
        \/ BatchSelect(w)
        \/ BatchDelete(w)
        \/ BatchDeleteRaises(w)
        \/ BatchSummary(w)
        \/ BatchAborts(w)

Spec == Init /\ [][Next]_vars

\* The row that processing attachment a leaves when no transient error is
\* raised: failed with the TypeError of to_json, or completed.
LeftByRun(pk, a, date) ==
    LET data == Parsed(a)
        fresh == NewRecord(pk, a, date)
    IN IF ToJsonRaises(data) THEN MarkFailed(CopyHead(fresh, data), "TypeError")
       ELSE CopyResult(fresh, data)

\* Two runs of the command, one after the other, over attachments that all
\* exist: attachment a holds file a (modulo the number of files), the company
\* of each and the order of the uploads are free, and either none has a
\* record or all have the record an earlier run left.  The environment
\* raises no transient error, update_company_metrics_cache runs query by
\* query, and the history fields are kept.
FirstRun == NumAttachments + 1

SecondRun == NumAttachments + 2

InitBatch ==
    /\ installed = Libraries
    /\ uploadOrder \in Perms(Attachments)
    /\ fileOf = [a \in Attachments |-> ((a - 1) % Len(Files)) + 1]
    /\ companyOf \in [Attachments -> Companies]
    /\ \E S \in {{}, Attachments} :
         /\ nextPk = Cardinality(S) + 1
         /\ now = Cardinality(S) + 1
         /\ records = {LeftByRun(a, a, a) : a \in S}
    /\ cache = [o \in CacheOwners |-> [c \in Companies |-> None]]
    /\ faultsLeft = 0
    /\ tracing = TRUE
    /\ wk = [w \in Workers |-> IdleWorker]
    /\ past = {}
    /\ parse = NoParse

Turn(w) == w = SecondRun => wk[FirstRun].pc = "done"

NextBatch ==
    \/ \E w \in BatchWorkers : Turn(w) /\ BatchStart(w)
    \/ \E w \in BatchWorkers : Turn(w) /\ BatchSelect(w)
    \/ \E w \in BatchWorkers : Turn(w) /\ BatchDelete(w)
    \/ \E w \in BatchWorkers : Turn(w) /\ CreateRecord(w)
    \/ \E w \in BatchWorkers : Turn(w) /\ ParseAndSave(w)
    \/ \E w \in BatchWorkers : Turn(w) /\ RefreshQuery(w)
    \/ \E w \in BatchWorkers : Turn(w) /\ RefreshCacheSet(w)
    \/ \E w \in BatchWorkers : Turn(w) /\ FailSave(w)
    \/ \E w \in BatchWorkers : Turn(w) /\ BatchSummary(w)

SpecBatch == InitBatch /\ [][NextBatch]_vars

\* The command in an environment where pandas may not be installed: the
\* attachments hold firmware.bin, timesheet.txt, report_a.txt, ...; no
\* record yet, no transient error.
InitEnv ==
    /\ installed \in {Libraries, Libraries \ {"pandas"}}
    /\ uploadOrder = [i \in 1..NumAttachments |-> i]
    /\ fileOf = [a \in Attachments |-> ((a + 2) % Len(Files)) + 1]
    /\ companyOf \in [Attachments -> Companies]
    /\ nextPk = 1
    /\ now = 1
    /\ records = {}
    /\ cache = [o \in CacheOwners |-> [c \in Companies |-> None]]
    /\ faultsLeft = 0
    /\ tracing = TRUE
    /\ wk = [w \in Workers |-> IdleWorker]
    /\ past = {}
    /\ parse = NoParse

SpecEnv == InitEnv /\ [][NextBatch]_vars

\* One run of the command over attachments that all exist, some of which
\* have a record left by an earlier run, with transient errors.
InitOneRun ==
    /\ installed = Libraries
    /\ uploadOrder = [i \in 1..NumAttachments |-> i]
    /\ fileOf = [a \in Attachments |-> ((a - 1) % Len(Files)) + 1]
    /\ companyOf = [a \in Attachments |-> 2 - (a % 2)]
    /\ nextPk = NumAttachments + 1
    /\ now = NumAttachments + 1
    /\ \E S \in SUBSET Attachments : records = {LeftByRun(a, a, a) : a \in S}
    /\ cache = [o \in CacheOwners |-> [c \in Companies |-> None]]
    /\ faultsLeft = MaxFaults
    /\ tracing = TRUE
    /\ wk = [w \in Workers |-> IdleWorker]
    /\ past = {}
    /\ parse = NoParse

NextOneRun ==
    \/ BatchStart(FirstRun)
    \/ BatchSelect(FirstRun)
    \/ BatchDelete(FirstRun)
    \/ BatchDeleteRaises(FirstRun)
    \/ CreateRecord(FirstRun)
    \/ CreateRecordRaises(FirstRun)
    \/ ParseAndSave(FirstRun)
    \/ RefreshAtomic(FirstRun)
    \/ RefreshRaises(FirstRun)
    \/ FailSave(FirstRun)
    \/ FailSaveRaises(FirstRun)
    \/ BatchSummary(FirstRun)
    \/ BatchAborts(FirstRun)

SpecOneRun == InitOneRun /\ [][NextOneRun]_vars

\* The aggregation as a function of the table.  The attachments of
\* company 1 hold report_a.txt, report_b.txt or timesheet.txt, those of
\* company 2 report_b.txt; each has no record, or a record completed from
\* the result of UniversalFileParser, or one completed from the result of
\* SimpleFileParser (a run of the command that could not import
\* file_parser), or a failed one; the dates of two records may be equal.
\* One request of the dashboard finds the cache empty and computes.
RowKinds == {"absent", "universal", "simple", "failed"}

StoredRow(a, kind, date) ==
    LET fresh == NewRecord(a, a, date)
        file == Files[fileOf[a]]
    IN CASE kind = "universal" -> CopyResult(fresh, ParseFile(file))
         [] kind = "simple" -> CopyResult(fresh, SimpleParseFile(file))
         [] OTHER -> MarkFailed(CopyResult(fresh, ParseFile(file)), "OperationalError")

TextFiles == {i \in 1..Len(Files) : Files[i].ext = ".txt"}

InitAgg ==
    /\ installed = Libraries
    /\ uploadOrder = [i \in 1..NumAttachments |-> i]
    /\ companyOf = [a \in Attachments |-> 2 - (a % 2)]
    /\ fileOf \in {f \in [Attachments -> TextFiles] :
                      \A a \in Attachments : companyOf[a] = 2 => f[a] = 2}
    /\ nextPk = NumAttachments + 1
    /\ now = 2
    /\ \E kind \in [Attachments -> RowKinds] :
         \E date \in {d \in [Attachments -> {1, 2}] : d[1] = 1} :
            records = {StoredRow(a, kind[a], date[a]) :
                          a \in {x \in Attachments : kind[x] # "absent"}}
    /\ cache = [o \in CacheOwners |-> [c \in Companies |-> None]]
    /\ faultsLeft = 0
    /\ tracing = FALSE
    /\ wk = [w \in Workers |-> IdleWorker]
    /\ past = {}
    /\ parse = NoParse

NextAgg ==
    \/ \E w \in ReaderWorkers : DashboardGet(w)
    \/ \E w \in ReaderWorkers : RefreshQuery(w)
    \/ \E w \in ReaderWorkers : RefreshCacheSet(w)

SpecAgg == InitAgg /\ [][NextAgg]_vars

\* The aggregation while the table changes.  The attachments before the
\* last one have completed records; the last one has just been uploaded
\* and its handler is about to create its record, parse the file, save the
\* record as completed or failed and refresh the cache, while requests of
\* the dashboard, served by the same process, read the cache or compute
\* the snapshot, and time passes.  past holds every content the table has
\* had, with the time it was reached or still stood at.
InitAggRace ==
    /\ installed = Libraries
    /\ uploadOrder = [i \in 1..NumAttachments |-> i]
    /\ companyOf = [a \in Attachments |-> 2 - (a % 2)]
    /\ fileOf \in {f \in [Attachments -> 1..Len(Files)] :
                      \A a \in Attachments \ {NumAttachments} : f[a] = 2 - (a % 2)}
    /\ nextPk = NumAttachments
    /\ now = NumAttachments
    /\ records = {StoredRow(a, "universal", a) : a \in Attachments \ {NumAttachments}}
    /\ cache = [o \in CacheOwners |-> [c \in Companies |-> None]]
    /\ faultsLeft = 0
    /\ tracing = FALSE
    /\ wk = [w \in Workers |->
               IF w = NumAttachments
               THEN [IdleWorker EXCEPT !.pc = "create", !.cur = NumAttachments]
               ELSE IdleWorker]
    /\ past = {[t |-> now, rows |-> records]}
    /\ parse = NoParse

NextAggRace ==
    \/ \E w \in UploadWorkers : CreateRecord(w)
    \/ \E w \in UploadWorkers : ParseAndSave(w)
    \/ \E w \in UploadWorkers : FailSave(w)
    \/ \E w \in UploadWorkers \cup ReaderWorkers : RefreshQuery(w)
    \/ \E w \in UploadWorkers \cup ReaderWorkers : RefreshCacheSet(w)
    \/ \E w \in ReaderWorkers : DashboardGet(w)
    \/ \E w \in ReaderWorkers : DashboardReturn(w)
    \/ Tick

SpecAggRace == InitAggRace /\ [][NextAggRace]_vars

\* ------------------------------------------------------ calls of parse_file
\* The parsers as functions of their input: one call of parse_file, of
\* UniversalFileParser or of SimpleFileParser, for every file name, file
\* object, content and set of installed libraries below.
Paths ==
    {<<"report", ".pdf">>, <<"report", ".PDF">>, <<"usage", ".xlsx">>,
     <<"usage", ".XLS">>, <<"data", ".Csv">>, <<"memo", ".docx">>,
     <<"memo", ".doc">>, <<"scan", ".png">>, <<"scan", ".jpg">>,
     <<"scan", ".Jpeg">>, <<"notes", ".TXT">>, <<"export", ".json">>,
     <<"export", ".tar", ".xml">>, <<"backup", ".pdf", ".gz">>,
     <<"firmware", ".bin">>, <<"README">>}

Contents ==
    {[kind |-> "valid", text |-> Files[2].text, cols |-> Files[3].cols,
      pairs |-> << >>],
     [kind |-> "valid", text |-> <<[k |-> "kwh", n |-> 750]>>,
      cols |-> << [name |-> <<"Water", "_", "Usage", "_", "Liters">>, typ |-> "str",
                   vals |-> <<Some(5000)>>],
                  [name |-> <<"Employee", "_", "Count">>, typ |-> "str",
                   vals |-> <<Some(10)>>] >>,
      pairs |-> << [name |-> <<"energy", "_", "kwh">>, cell |-> Num(640)],
                   [name |-> <<"emission", "_", "total">>, cell |-> Num(12)],
                   [name |-> <<"training", "_", "hour">>, cell |-> Num(8)],
                   [name |-> <<"employee", "_", "total", "_", "turnover">>,
                    cell |-> Some([k |-> "num", n |-> 0, part |-> 5])],
                   [name |-> <<"employee", "_", "count">>, cell |-> Num(120)],
                   [name |-> <<"employee", "_", "note">>, cell |-> Some([k |-> "word"])],
                   [name |-> <<"employee", "_", "id">>, cell |-> Num(7)] >>],
     [kind |-> "valid", text |-> << >>, cols |-> << >>,
      pairs |-> << [name |-> <<"water", "_", "balance">>, cell |-> Num(0 - 40)],
                   [name |-> <<"waste">>, cell |-> None] >>],
     [kind |-> "valid",
      text |-> <<[k |-> "pad", n |-> 120], [k |-> "kwh", n |-> 750],
                 [k |-> "liters", n |-> 5000], [k |-> "kg", n |-> 30],
                 [k |-> "tco2", n |-> 12], [k |-> "employees", n |-> 40],
                 [k |-> "training", n |-> 25],
                 [k |-> "compliance", n |-> 0], [k |-> "pct", n |-> 90]>>,
      cols |-> << [name |-> <<"2024">>, typ |-> "int", vals |-> <<Some(1)>>],
                  [name |-> <<"kWh">>, typ |-> "str", vals |-> <<Some(300)>>] >>,
      pairs |-> << [name |-> <<"energy">>, cell |-> Num(640)] >>],
     [kind |-> "text", text |-> Files[5].text, cols |-> << >>, pairs |-> << >>],
     [kind |-> "garbage", text |-> <<[k |-> "pad", n |-> 40]>>, cols |-> << >>,
      pairs |-> << >>],
     [kind |-> "garbage", text |-> <<[k |-> "pad", n |-> 300]>>, cols |-> << >>,
      pairs |-> << >>]}

Inputs ==
    {[name |-> "upload", path |-> path, obj |-> obj, kind |-> c.kind,
      text |-> c.text, cols |-> c.cols, pairs |-> c.pairs, libs |-> libs,
      parser |-> parser, pos |-> "start"] :
        path \in Paths, obj \in {"file", "unreadable", "missing"},
        c \in Contents, libs \in SUBSET Libraries,
        parser \in {"universal", "simple"}}

InitParse ==
    /\ installed = Libraries
    /\ uploadOrder = << >>
    /\ fileOf = [a \in Attachments |-> 1]
    /\ companyOf = [a \in Attachments |-> 1]
    /\ records = {}
    /\ nextPk = 1
    /\ now = 1
    /\ cache = [o \in CacheOwners |-> [c \in Companies |-> None]]
    /\ faultsLeft = 0
    /\ tracing = FALSE
    /\ wk = [w \in Workers |-> IdleWorker]
    /\ past = {}
    /\ parse \in {Some([Called(inp) EXCEPT !.pc = "import"]) : inp \in Inputs}

\* The call in progress: the last one of parse.
ThisCall == parse[Len(parse)]

\* from apps.files.file_parser import UniversalFileParser, or
\* from apps.files.simple_parser import SimpleFileParser.
ImportParser ==
    /\ parse # NoParse
    /\ ThisCall.pc = "import"
    /\ \E pc \in ImportOutcomes(ThisCall.inp) :
          parse' = [parse EXCEPT ![Len(parse)] = [ThisCall EXCEPT !.pc = pc]]
    /\ UNCHANGED <<past, tracing, installed, uploadOrder, fileOf, companyOf, records, nextPk, now, cache, faultsLeft, wk>>

\* UniversalFileParser.parse_file, up to the call of the parser function.
ParseDispatch ==
    /\ parse # NoParse
    /\ ThisCall.pc = "called"
    /\ ThisCall.inp.parser = "universal"
    /\ parse' = [parse EXCEPT ![Len(parse)] = Dispatched(ThisCall)]
    /\ UNCHANGED <<past, tracing, installed, uploadOrder, fileOf, companyOf, records, nextPk, now, cache, faultsLeft, wk>>

\* The parser function runs and parse_file returns its result.
ParseRun ==
    /\ parse # NoParse
    /\ ThisCall.pc = "parser"
    /\ parse' = [parse EXCEPT ![Len(parse)] = ParserReturned(ThisCall)]
    /\ UNCHANGED <<past, tracing, installed, uploadOrder, fileOf, companyOf, records, nextPk, now, cache, faultsLeft, wk>>

\* The except-branch of parse_file.
ParseExcept ==
    /\ parse # NoParse
    /\ ThisCall.pc = "except"
    /\ parse' = [parse EXCEPT ![Len(parse)] = Handled(ThisCall)]
    /\ UNCHANGED <<past, tracing, installed, uploadOrder, fileOf, companyOf, records, nextPk, now, cache, faultsLeft, wk>>

\* SimpleFileParser.parse_file.
SimpleParse ==
    /\ parse # NoParse
    /\ ThisCall.pc = "called"
    /\ ThisCall.inp.parser = "simple"
    /\ parse' = [parse EXCEPT ![Len(parse)] =
                    [ThisCall EXCEPT !.pc = "returned",
                                     !.read = ThisCall.inp.obj # "missing",
                                     !.result = Some(SimpleParseFileOf(ThisCall.inp))]]
    /\ UNCHANGED <<past, tracing, installed, uploadOrder, fileOf, companyOf, records, nextPk, now, cache, faultsLeft, wk>>

\* parse_file(file_path, file_obj) called once more by the same caller with
\* the same name and the same file object, after the first call has
\* returned: a parser that read the stream has left it at its end.
ParseAgain ==
    /\ Len(parse) = 1
    /\ ThisCall.pc = "returned"
    /\ ThisCall.inp.parser = "universal"
    /\ ThisCall.inp.obj = "file"
    /\ parse' = parse \o
          <<Called([ThisCall.inp EXCEPT !.pos = IF ThisCall.read THEN "end" ELSE @])>>
    /\ UNCHANGED <<past, tracing, installed, uploadOrder, fileOf, companyOf, records, nextPk, now, cache, faultsLeft, wk>>

NextParse ==
    \/ ImportParser \/ ParseDispatch \/ ParseRun \/ ParseExcept \/ SimpleParse
    \/ ParseAgain

SpecParse == InitParse /\ [][NextParse]_vars

\* ------------------------------------------------------------- properties
Terminal == {"completed", "failed"}

\* C1: the status of a record only moves forward, and a record that has
\* been saved as completed or failed keeps that status ever after: in no
\* step does a row of the table that is completed or failed get another
\* status, and no row goes back to processing.
C1_TerminalStatusIsFinal ==
    [][\A r \in records : \A r2 \in records' :
          r2.pk = r.pk /\ r.processing_status \in Terminal
              => r2.processing_status = r.processing_status]_vars

\* C2: when the run of the command is over, every attachment it attempted
\* has exactly one record, and that record is completed or failed.
C2_AttemptLeavesTerminalRecord ==
    wk[FirstRun].pc = "done" =>
        \A i \in 1..Len(wk[FirstRun].attempted) :
            LET rows == RowsOf(wk[FirstRun].attempted[i])
            IN /\ Cardinality(rows) = 1
               /\ \A r \in rows : r.processing_status \in Terminal

\* The record r holds the parser's result for its attachment: the columns
\* named in `fields` and the serialization.
HoldsCopy(r, fields) ==
    LET data == Parsed(r.att)
    IN /\ \A f \in fields : f \in DOMAIN r.cols /\ r.cols[f] = data.m[f]
       /\ r.extracted_json = Some(ToJson(data))

Instances == {wk[w].inst[1] : w \in {x \in Workers : wk[x].inst # None}}

\* C3: every record marked completed, in the table or in a worker's memory,
\* holds in each of its eleven quick-access columns the value of the same
\* metric field of the parser's result, and in extracted_json the
\* serialization of that result; diversity_ratio, audit_findings and
\* policy_updates have no column and are kept in extracted_json only.
C3_CompletedHoldsQuickFields ==
    \A r \in records \cup Instances :
        r.processing_status = "completed" =>
            /\ HoldsCopy(r, QuickFields)
            /\ MetricFields \ DOMAIN r.cols =
                   {"diversity_ratio", "audit_findings", "policy_updates"}

\* C3 as stated: a completed record holds a quick-access column for every
\* metric field of the ExtractionResult, with the same value.
C3_CompletedHoldsEveryMetric ==
    \A r \in records \cup Instances :
        r.processing_status = "completed" => HoldsCopy(r, MetricFields)

C3_Witness ==
    \E r \in records :
        /\ r.processing_status = "completed"
        /\ r.cols["training_hours"] # None
        /\ r.extracted_json # None

\* C4: a record that is not failed has an empty error_message.
C4_ErrorMessageOnlyOnFailed ==
    \A r \in records : r.processing_status # "failed" => r.error_message = ""

\* A worker is in its except-branch and the row it is about to mark failed
\* is still processing or completed, with no message.
C4_Witness ==
    \E w \in Workers :
        /\ wk[w].pc = "failsave"
        /\ wk[w].exc # ""
        /\ \E r \in RowsOf(wk[w].cur) :
              r.processing_status \in {"processing", "completed"}

PksOf(a) == {r.pk : r \in RowsOf(a)}

\* C5: an attachment never has more than one record, whatever the
\* interleaving of uploads and runs of the command; the record of an
\* attachment is never exchanged for another in one step, and it goes away
\* only in the delete of a run started with --force, before that run
\* creates the new one.
C5_OneRecordPerAttachment ==
    /\ [](\A a \in Attachments : Cardinality(RowsOf(a)) <= 1)
    /\ [][\A a \in Attachments :
            PksOf(a) # {} =>
                \/ PksOf(a)' = PksOf(a)
                \/ /\ PksOf(a)' = {}
                   /\ \E w \in BatchWorkers :
                        /\ wk[w].force /\ wk[w].pc = "delete" /\ wk[w].cur = a
                        /\ wk'[w].pc = "create"]_vars

\* A worker is about to create a record for an attachment that has one.
C5_Witness ==
    \E w \in Workers : wk[w].pc = "create" /\ RowsOf(wk[w].cur) # {}

Elems(seq) == {seq[i] : i \in 1..Len(seq)}

\* C6: when two runs of the command with --force, one after the other, are
\* over, every attachment that both attempted has exactly one record, and
\* the second run left for it the status and the metric columns the first
\* had left.
C6_ForcedReprocessIdempotent ==
    LET once == wk[FirstRun]
        twice == wk[SecondRun]
    IN (once.pc = "done" /\ twice.pc = "done" /\ once.force /\ twice.force) =>
          \A a \in Elems(once.attempted) \cap Elems(twice.attempted) :
              /\ Cardinality(RowsOf(a)) = 1
              /\ Cardinality(twice.final[a]) = 1
              /\ twice.final[a] = once.final[a]

\* Both forced runs went over all the attachments, which had records of an
\* earlier run, and left completed and failed records.
C6_Witness ==
    /\ wk[FirstRun].pc = "done" /\ wk[FirstRun].force
    /\ wk[SecondRun].pc = "done" /\ wk[SecondRun].force
    /\ Elems(wk[FirstRun].attempted) = Attachments
    /\ Elems(wk[SecondRun].attempted) = Attachments
    /\ nextPk > 3 * Cardinality(Attachments)
    /\ \E r \in records : r.processing_status = "completed"
    /\ \E r \in records : r.processing_status = "failed"

\* C7: a run of the command without --force selects no attachment that has
\* a record, and in none of its steps does it delete or change a row other
\* than the one it created itself, or insert a row for an attachment that
\* has one.
C7_NonForceLeavesRecordsAlone ==
    [][\A w \in BatchWorkers :
         (wk'[w] # wk[w] /\ ~wk'[w].force) =>
            /\ \A r \in records :
                  (wk[w].inst = None \/ r.pk # wk[w].inst[1].pk) => r \in records'
            /\ \A r \in records' :
                  (\A x \in records : x.pk # r.pk) => RowsOf(r.att) = {}
            /\ (wk[w].pc = "select" /\ wk'[w].pc \notin {"select", "aborted"}) =>
                  /\ wk'[w].cur # 0 => RowsOf(wk'[w].cur) = {}
                  /\ \A i \in 1..Len(wk'[w].queue) : RowsOf(wk'[w].queue[i]) = {}]_vars

\* A run without --force over all companies is over, has attempted nothing,
\* and the table holds a failed record.
C7_Witness ==
    \E w \in BatchWorkers :
        /\ wk[w].pc = "done" /\ ~wk[w].force /\ wk[w].company_id = 0
        /\ wk[w].processed = 0 /\ wk[w].errors = 0
        /\ \E r \in records : r.processing_status = "failed"

RunOverAll ==
    /\ wk[FirstRun].pc = "done"
    /\ wk[SecondRun].pc = "idle"
    /\ Elems(wk[FirstRun].attempted) = Attachments

\* The table that processing the attachments in ascending order leaves.
AscendingTable == {LeftByRun(a, a, a) : a \in Attachments}

ViewOf(rows) ==
    [a \in Attachments |->
        {<<r.processing_status, r.cols>> : r \in {x \in rows : x.att = a}}]

\* The position of attachment a in the order the run processed them.
Position(a) == CHOOSE i \in 1..Len(wk[FirstRun].attempted) : wk[FirstRun].attempted[i] = a

\* The completed record, of company c with a value in column k, that the
\* run processed last.
LastProcessed(c, k) ==
    {r \in NonNull(CompletedRows(records, c), k) :
        \A x \in NonNull(CompletedRows(records, c), k) :
            Position(x.att) <= Position(r.att)}

OrderFreeKeys == {"training_hours_avg"}

\* C9: whatever the order in which a run processes the attachments, the
\* records it leaves have the same status and metric columns, and the
\* snapshot of each company computed from them has the same
\* total_files_processed, average_confidence and training_hours_avg; each
\* latest-value metric of the snapshot is the value of the record
\* processed last among the company's completed records that have one, and
\* so follows the order.
C9_RecordsOrderFreeSnapshotLatestByOrder ==
    RunOverAll =>
        /\ TableView = ViewOf(AscendingTable)
        /\ \A c \in Companies : \A m \in Aggregates(records, c) :
              /\ \E ref \in Aggregates(AscendingTable, c) :
                    /\ m.total_files_processed = ref.total_files_processed
                    /\ m.average_confidence = ref.average_confidence
                    /\ \A k \in OrderFreeKeys : m.vals[k] = ref.vals[k]
              /\ \A k \in SnapshotKeys \ OrderFreeKeys :
                    IF LastProcessed(c, k) = {} THEN m.vals[k] = None
                    ELSE \A r \in LastProcessed(c, k) : m.vals[k] = r.cols[k]

\* C9 as stated: whatever the order in which a run processes the
\* attachments, the records it leaves and the snapshot of each company
\* computed from them are those of any other order, here the ascending one.
C9_SnapshotOrderFree ==
    RunOverAll =>
        /\ TableView = ViewOf(AscendingTable)
        /\ \A c \in Companies :
              Aggregates(records, c) = Aggregates(AscendingTable, c)

\* Attachments 1 and 2, of one company, give different values of
\* energy_consumption_kwh, and the run processed 2 before 1.
C9_Witness ==
    /\ RunOverAll
    /\ companyOf[1] = companyOf[2]
    /\ Position(2) < Position(1)
    /\ \E r1 \in RowsOf(1) : \E r2 \in RowsOf(2) :
          /\ r1.processing_status = "completed"
          /\ r2.processing_status = "completed"
          /\ r1.cols["energy_consumption_kwh"] # None
          /\ r2.cols["energy_consumption_kwh"] # None
          /\ r1.cols["energy_consumption_kwh"] # r2.cols["energy_consumption_kwh"]

\* The company's completed records, by the status and the company alone.
CompletedOf(c) ==
    {r \in records : r.processing_status = "completed" /\ companyOf[r.att] = c}

\* C10: when update_company_metrics_cache has made its queries, the
\* snapshot's total_files_processed is the number of the company's
\* completed records, its average_confidence their mean confidence_score
\* (0 when there are none), and the whole snapshot is the one computed from
\* those records alone: the other records contribute nothing.
C10_SnapshotFromCompletedOfCompany ==
    \A w \in BatchWorkers :
        wk[w].pc = "cache_set" =>
            LET c == companyOf[wk[w].cur]
                m == wk[w].metrics
            IN /\ m.total_files_processed = Cardinality(CompletedOf(c))
               /\ m.average_confidence =
                     IF CompletedOf(c) = {} THEN <<0, 1>>
                     ELSE Frac(SumConfidence(CompletedOf(c)), Cardinality(CompletedOf(c)))
               /\ m \in Aggregates(CompletedOf(c), c)

\* A snapshot is ready while the company has a failed record and the other
\* company a completed one.
C10_Witness ==
    \E w \in BatchWorkers :
        /\ wk[w].pc = "cache_set"
        /\ wk[w].metrics.total_files_processed >= 1
        /\ \E r \in records : /\ r.processing_status = "failed"
                              /\ companyOf[r.att] = companyOf[wk[w].cur]
        /\ \E r \in records : /\ r.processing_status = "completed"
                              /\ companyOf[r.att] # companyOf[wk[w].cur]

\* The nine scalar metrics of a record, and the ones among them that the
\* snapshot has a key for.
ScalarMetrics == QuickFields \ {"training_hours", "safety_incidents"}

LatestKeys == SnapshotKeys \ {"training_hours_avg"}

\* The value under key k of a snapshot; None when the key is absent.
SnapshotValue(m, k) == IF k \in DOMAIN m.vals THEN m.vals[k] ELSE None

\* The value of k in m is that of a completed record of company c with the
\* latest extraction_date among those where k is not null; the key is
\* absent exactly when there is none.
IsLatestNonNull(m, k, c) ==
    LET S == {r \in records : /\ r.processing_status = "completed"
                              /\ companyOf[r.att] = c
                              /\ r.cols[k] # None}
    IN IF S = {} THEN SnapshotValue(m, k) = None
       ELSE \E r \in S : /\ \A x \in S : x.extraction_date <= r.extraction_date
                         /\ SnapshotValue(m, k) = r.cols[k]

\* The request has made all its queries.
Computed(w) == wk[w].pc = "cache_set"

C12_TrainingMeanReported ==
    \A w \in ReaderWorkers :
        Computed(w) =>
            LET T == NonNull(CompletedRows(records, wk[w].company_id), "training_hours")
            IN T # {} =>
                 wk[w].metrics.vals["training_hours_avg"] =
                     Some(Frac(SumColumn(T, "training_hours"), Cardinality(T)))

\* C15: computing the snapshot again from the same records gives the same
\* counts and values: the snapshot a request has computed is the only one
\* the function can give for the table, also when two records share the
\* latest extraction_date.
C15_RecomputeGivesSameSnapshot ==
    \A w \in ReaderWorkers :
        Computed(w) =>
            \A m \in Aggregates(records, wk[w].company_id) : m = wk[w].metrics

\* The table contents e of the history h still stood at time t0 or later.
StoodSince(h, e, t0) ==
    \/ e.t >= t0
    \/ \A x \in h : x.t <= e.t \/ x.t > t0

\* C13: when update_company_metrics_cache runs while records are created,
\* completed or failed, every field of the snapshot it has computed derives
\* from one and the same set of completed records: the snapshot is an
\* aggregate of the table as it stood at one instant.
C13_SnapshotOfOneInstant ==
    \A w \in UploadWorkers \cup ReaderWorkers :
        Computed(w) =>
            \E e \in past : wk[w].metrics \in Aggregates(e.rows, CompanyOfCall(w))

\* C14: every snapshot a request of the dashboard gets through the cached
\* path (a hit, or a computation on a miss) is the aggregate of the
\* completed records as they stood at some instant at most one TTL before
\* the read.
C14_StalenessBoundedByTTL ==
    [][\A w \in ReaderWorkers :
          (wk[w].pc # "done" /\ wk'[w].pc = "done") =>
              \E e \in past' :
                  /\ StoodSince(past', e, now' - TTL)
                  /\ wk'[w].metrics \in Aggregates(e.rows, wk'[w].company_id)]_vars

\* The calls of UniversalFileParser.parse_file, and those that have
\* returned.
UniversalCalls == {p \in {parse[i] : i \in 1..Len(parse)} : p.inp.parser = "universal"}

ReturnedCalls == {p \in {parse[i] : i \in 1..Len(parse)} : p.pc = "returned"}

\* The file type of the parser of each supported extension.
ExpectedFileType ==
    [ext \in {".pdf", ".xlsx", ".xls", ".csv", ".docx", ".doc", ".png",
              ".jpg", ".jpeg", ".txt", ".json", ".xml"} |->
        CASE ext = ".pdf" -> "pdf"
          [] ext \in {".xlsx", ".xls"} -> "excel"
          [] ext = ".csv" -> "csv"
          [] ext = ".docx" -> "docx"
          [] ext \in {".doc", ".txt"} -> "text"
          [] ext \in {".png", ".jpg", ".jpeg"} -> "image"
          [] ext = ".json" -> "json"
          [] OTHER -> "xml"]

\* The last extension of the name of a call, lower-cased.
LastExtension(p) == Lower(Suffix(p.inp.path))

\* C16: parse_file selects the parser from the lower-cased last extension
\* of the name: a call with a file object returns the result of the parser
\* of that extension (.pdf pdf, .xlsx/.xls excel, .csv csv, .docx docx,
\* .doc and .txt text, .png/.jpg/.jpeg image, .json json, .xml xml); any
\* other extension gives file type "unsupported", every metric null and
\* confidence 0, and the file is neither opened nor read.
C16_ParserByLowerCasedExtension ==
    \A p \in UniversalCalls \cap ReturnedCalls :
        IF LastExtension(p) \in DOMAIN ExpectedFileType
        THEN p.inp.obj # "missing" =>
                 /\ p.func # ""
                 /\ p.result[1].file_type = ExpectedFileType[LastExtension(p)]
        ELSE /\ p.result[1].file_type = "unsupported"
             /\ \A f \in MetricFields : p.result[1].m[f] = None
             /\ p.result[1].confidence_score = 0
             /\ ~p.read

\* A name whose extension is not written in lower case has been parsed by
\* the parser of the extension.
C16_Witness ==
    \E p \in UniversalCalls \cap ReturnedCalls :
        /\ Suffix(p.inp.path) # LastExtension(p)
        /\ p.inp.obj = "file"
        /\ p.result[1].file_type = "pdf"

\* C17: for every supported extension and every content and file object,
\* a missing or unreadable one included, parse_file does not raise and the
\* file type of its result is the one of the extension or "error".
C17_NeverRaises ==
    \A p \in UniversalCalls :
        /\ p.pc # "raised"
        /\ (p.pc = "returned" /\ LastExtension(p) \in DOMAIN ExpectedFileType) =>
              /\ p.result # None
              /\ p.result[1].file_type \in {ExpectedFileType[LastExtension(p)], "error"}

\* A call without a file object has returned the "error" result.
C17_Witness ==
    \E p \in UniversalCalls \cap ReturnedCalls :
        /\ p.inp.obj = "missing"
        /\ LastExtension(p) \in DOMAIN ExpectedFileType
        /\ p.result[1].file_type = "error"

\* The library the parser of the call works with is not installed.
LibraryAbsent(p) ==
    \/ p.func = "_parse_pdf" /\ "pdfplumber" \notin p.inp.libs /\ "PyPDF2" \notin p.inp.libs
    \/ p.func \in {"_parse_excel", "_parse_csv"} /\ "pandas" \notin p.inp.libs
    \/ p.func = "_parse_image" /\ "ocr" \notin p.inp.libs
    \/ p.func = "_parse_docx" /\ "docx" \notin p.inp.libs

IsMessage(raw_text, kind) ==
    /\ raw_text # None
    /\ Len(raw_text[1]) = 1
    /\ raw_text[1][1].k = kind

\* C18: when the library of a format (PDF, Excel/CSV, OCR, DOCX) is not
\* installed, the parser is still there and degrades to decoding the file
\* as plain text under the extraction method "text_fallback"; only when
\* the decoding fails the result has an explanatory rawText and
\* confidence 0.
C18_MissingLibraryFallsBackToText ==
    \A p \in UniversalCalls :
        /\ p.pc # "import_error"
        /\ (p.pc = "returned" /\ p.func # "" /\ p.inp.obj # "missing"
               /\ LibraryAbsent(p)) =>
              IF p.inp.obj = "file"
              THEN /\ p.result[1].extraction_method = "text_fallback"
                   /\ p.result[1].raw_text = Some(p.inp.text)
              ELSE /\ p.result[1].raw_text # None
                   /\ p.result[1].confidence_score = 0

\* C19: whenever a parser, universal or simple, has recovered from an
\* error by writing the error description into rawText, the result has
\* confidence 0.
C19_ErrorTextMeansZeroConfidence ==
    \A p \in ReturnedCalls :
        IsMessage(p.result[1].raw_text, "errmsg") =>
            p.result[1].confidence_score = 0

\* C20: for bytes that are neither decodable text nor a valid instance of
\* the format the name claims, the text-fallback path returns, without
\* raising, a result with a non-null rawText and confidence 0, whatever the
\* length of the text recovered.
C20_GarbageFallbackZeroConfidence ==
    \A p \in UniversalCalls :
        /\ p.pc # "raised"
        /\ (/\ p.pc = "returned"
            /\ p.inp.kind = "garbage"
            /\ p.result[1].extraction_method = "text_fallback") =>
              /\ p.result[1].raw_text # None
              /\ p.result[1].confidence_score = 0


\* C21: every numeric metric field of every result parse_file returns is
\* null or a non-negative number, whichever strategy (text pattern, table
\* scan, column scan, key-value scan) populated it.
C21_MetricsNullOrNonNegative ==
    \A p \in UniversalCalls \cap ReturnedCalls : \A f \in MetricFields :
        p.result[1].m[f] = None \/ p.result[1].m[f][1] >= 0


\* C22: the confidence score never decreases when a metric field is added:
\* for every result parse_file returns and every metric field it left
\* null, the score _calculate_confidence gives to the same result with that
\* field set is at least the score it gives to the result.
C22_ConfidenceMonotone ==
    \A p \in UniversalCalls \cap ReturnedCalls : \A f \in MetricFields :
        p.result[1].m[f] = None =>
            CalculateConfidence([p.result[1] EXCEPT !.m[f] = Some(1)])
                >= CalculateConfidence(p.result[1])

\* A result with some metric fields set, a long text and a table, for
\* which one more checked field raises the score.
C22_Witness ==
    \E p \in UniversalCalls \cap ReturnedCalls : \E f \in CheckedFields :
        /\ p.result[1].m[f] = None
        /\ \E g \in CheckedFields : p.result[1].m[g] # None
        /\ p.result[1].confidence_score = CalculateConfidence(p.result[1])
        /\ p.result[1].confidence_score > 0
        /\ CalculateConfidence([p.result[1] EXCEPT !.m[f] = Some(1)])
               > CalculateConfidence(p.result[1])


\* min(100, 100 * (n + 0.5 t + 0.5 b) / 8) in thousandths of a percent: n
\* the non-null ones of the seven checked fields, t whether rawText has
\* more than 100 characters, b whether there is at least one table.
StatedConfidence(r) ==
    LET n == Cardinality({f \in {"energy_consumption_kwh", "water_usage_liters",
                                 "waste_generated_kg", "carbon_emissions_tco2",
                                 "total_employees", "training_hours",
                                 "compliance_score"} : r.m[f] # None})
        t == IF r.raw_text # None /\ TextLen(r.raw_text[1]) > 100 THEN 1 ELSE 0
        b == IF r.tables # None /\ Len(r.tables[1]) > 0 THEN 1 ELSE 0
        c == ((2 * n + t + b) * 100000) \div 16
    IN IF c < 100000 THEN c ELSE 100000

AllSevenAndBonuses(r) ==
    /\ \A f \in CheckedFields : r.m[f] # None
    /\ r.raw_text # None /\ TextLen(r.raw_text[1]) > 100
    /\ r.tables # None /\ Len(r.tables[1]) > 0

\* The parser ended in its except-branch or without its library: rawText
\* is the message and the score stays at the 0.0 of the constructor.
NotScored(r) ==
    \/ IsMessage(r.raw_text, "errmsg")
    \/ IsMessage(r.raw_text, "libmsg")

\* C27 as stated: the confidence of every result equals
\* min(100, 100 * (n + 0.5 t + 0.5 b) / 8), lies in [0, 100] and is 100
\* only when all seven fields are set and both bonuses apply.
C27_ConfidenceIsStatedFormula ==
    \A p \in UniversalCalls \cap ReturnedCalls :
        /\ p.result[1].confidence_score = StatedConfidence(p.result[1])
        /\ p.result[1].confidence_score \in 0..100000
        /\ p.result[1].confidence_score = 100000 => AllSevenAndBonuses(p.result[1])

\* C27: the confidence of a result is 0 when its parser did not reach the
\* scoring step (unsupported extension, missing library, caught exception),
\* 0.7 times min(100, 100 * (n + 0.5 t + 0.5 b) / 8) for an OCR result and
\* that minimum itself for every other result; it lies in [0, 100] and is
\* 100 only when all seven fields are set and both bonuses apply.
C27_ConfidenceOfScoredResults ==
    \A p \in UniversalCalls \cap ReturnedCalls :
        LET r == p.result[1]
        IN /\ r.confidence_score =
                IF NotScored(r) THEN 0
                ELSE IF r.file_type = "image" THEN (StatedConfidence(r) * 7) \div 10
                ELSE StatedConfidence(r)
           /\ r.confidence_score \in 0..100000
           /\ r.confidence_score = 100000 => AllSevenAndBonuses(r)

\* A PDF with all seven fields in a long text and a table: 100.
C27_Witness ==
    \E p \in UniversalCalls \cap ReturnedCalls :
        /\ p.result[1].file_type = "pdf"
        /\ AllSevenAndBonuses(p.result[1])
        /\ p.result[1].confidence_score = 100000

\* An OCR result with fields set and a score under the stated formula.
C27_WitnessImage ==
    \E p \in UniversalCalls \cap ReturnedCalls :
        /\ p.result[1].file_type = "image"
        /\ ~NotScored(p.result[1])
        /\ p.result[1].confidence_score > 0
        /\ p.result[1].confidence_score < StatedConfidence(p.result[1])


\* The library of the parser (pdfplumber/PyPDF2, pandas, python-docx,
\* PIL/pytesseract, json, ElementTree, or the read of the stream itself) is
\* there and raises on this file: the stream does not read, or the bytes
\* are not of the format; pd.read_csv raises on every file.
LibraryRaises(p) ==
    /\ p.func # ""
    /\ p.inp.obj # "missing"
    /\ ~LibraryAbsent(p)
    /\ \/ p.inp.obj = "unreadable"
       \/ p.func = "_parse_csv"
       \/ p.func \notin {"_parse_text", "_parse_doc"} /\ p.inp.kind # "valid"

\* file_type and extraction_method each parser gives its results.
FormatOfParser ==
    [func \in {"_parse_excel", "_parse_csv", "_parse_docx", "_parse_doc",
               "_parse_image", "_parse_text", "_parse_json", "_parse_xml"} |->
        CASE func = "_parse_excel" -> <<"excel", "excel_extraction">>
          [] func = "_parse_csv" -> <<"csv", "csv_extraction">>
          [] func = "_parse_docx" -> <<"docx", "docx_extraction">>
          [] func = "_parse_image" -> <<"image", "ocr_extraction">>
          [] func = "_parse_json" -> <<"json", "json_extraction">>
          [] func = "_parse_xml" -> <<"xml", "xml_extraction">>
          [] OTHER -> <<"text", "text_extraction">>]

\* C29 as stated: when the parsing library raises, for PDF the
\* text-fallback path runs, and for every other format the result has
\* fileType and extractionMethod "error" and the exception message in
\* rawText.
C29_ErrorTypeAndMethod ==
    \A p \in UniversalCalls \cap ReturnedCalls :
        LibraryRaises(p) =>
            IF p.func = "_parse_pdf"
            THEN \/ p.result[1].extraction_method = "text_fallback"
                 \/ IsMessage(p.result[1].raw_text, "errmsg")
            ELSE /\ p.result[1].file_type = "error"
                 /\ p.result[1].extraction_method = "error"
                 /\ IsMessage(p.result[1].raw_text, "errmsg")

\* C29: when the parsing library raises, the error is caught inside the
\* parser: for PDF the text-fallback path runs (and leaves the message
\* when the stream cannot be read again); for every other format the
\* result keeps the fileType and extractionMethod of its format, has the
\* message in rawText and confidence 0.  fileType "error" is given only
\* by parse_file itself, with extractionMethod "none", when the file
\* cannot be opened.
C29_ErrorKeepsFormat ==
    \A p \in UniversalCalls \cap ReturnedCalls :
        /\ LibraryRaises(p) =>
              IF p.func = "_parse_pdf"
              THEN IF p.inp.obj = "file"
                   THEN /\ p.result[1].extraction_method = "text_fallback"
                        /\ p.result[1].raw_text = Some(p.inp.text)
                   ELSE /\ p.result[1].extraction_method = "pdf_extraction"
                        /\ IsMessage(p.result[1].raw_text, "errmsg")
              ELSE /\ p.result[1].file_type = FormatOfParser[p.func][1]
                   /\ p.result[1].extraction_method = FormatOfParser[p.func][2]
                   /\ IsMessage(p.result[1].raw_text, "errmsg")
                   /\ p.result[1].confidence_score = 0
        /\ p.result[1].file_type = "error" =>
              /\ p.inp.obj = "missing"
              /\ p.result[1].extraction_method = "none"

\* A workbook that pandas cannot read: the result is an "excel" one.
C29_Witness ==
    \E p \in UniversalCalls \cap ReturnedCalls :
        /\ LibraryRaises(p)
        /\ p.func = "_parse_excel"
        /\ p.inp.obj = "file"
        /\ p.inp.kind = "garbage"
        /\ p.result[1].file_type = "excel"
        /\ IsMessage(p.result[1].raw_text, "errmsg")


\* C24: a well-formed CSV with the header Water_Usage_Liters,Employee_Count
\* and the row 5000,10, read with pandas installed, gives
\* water_usage_liters = 5000.0 and total_employees = 10 through the column
\* scan: the decoding read of the stream does not prevent the table from
\* being read.
C24_CsvColumnsPopulateFields ==
    \A p \in UniversalCalls \cap ReturnedCalls :
        (/\ p.func = "_parse_csv"
         /\ p.inp.obj = "file"
         /\ p.inp.kind = "valid"
         /\ "pandas" \in p.inp.libs
         /\ Len(p.inp.cols) = 2
         /\ p.inp.cols[1] = [name |-> <<"Water", "_", "Usage", "_", "Liters">>,
                             typ |-> "str", vals |-> <<Some(5000)>>]
         /\ p.inp.cols[2] = [name |-> <<"Employee", "_", "Count">>,
                             typ |-> "str", vals |-> <<Some(10)>>]) =>
            /\ p.result[1].m["water_usage_liters"] = Some(5000)
            /\ p.result[1].m["total_employees"] = Some(10)


\* C28: the key-value scan applies the vocabulary of the table scan: for
\* every (name, value) pair of a document, scanning it as a flattened key
\* into an empty result sets the same metric field to the same value as
\* scanning it as a table cell, and sets nothing where the table scan sets
\* nothing.
C28_KeyScanEqualsTableScan ==
    \A p \in UniversalCalls \cap ReturnedCalls :
        p.func \in {"_parse_pdf", "_parse_docx", "_parse_json", "_parse_xml"} =>
            \A i \in 1..Len(p.inp.pairs) :
                LET empty == ExtractedData(p.inp.name, "json", "json_extraction")
                IN ScanKey(empty, p.inp.pairs[i]).m
                       = ScanTableEntry(empty, p.inp.pairs[i]).m


\* The result under construction after each step of one parse of a valid
\* document: for JSON and XML after each key of the flattened dictionary;
\* for PDF and DOCX after the scan of the text and then after each table
\* cell.  The last one carries the metric fields parse_file returns.
ScanStages(p) ==
    LET n == Len(p.inp.pairs)
        Prefix(i) == SubSeq(p.inp.pairs, 1, i)
    IN IF p.func \in {"_parse_json", "_parse_xml"}
       THEN [i \in 1..(n + 1) |->
                ExtractFromJson(ExtractedData(p.inp.name, "json", "json_extraction"),
                                Prefix(i - 1))]
       ELSE [i \in 1..(n + 1) |->
                ExtractFromTables(
                    ExtractEsgMetrics(ExtractedData(p.inp.name, "pdf", "pdf_extraction"),
                                      p.inp.text),
                    Prefix(i - 1))]

ScansPairs(p) ==
    /\ p.inp.obj = "file"
    /\ p.inp.pos = "start"
    /\ p.inp.kind = "valid"
    /\ \/ p.func \in {"_parse_json", "_parse_xml"}
       \/ p.func = "_parse_pdf" /\ "pdfplumber" \in p.inp.libs
       \/ p.func = "_parse_docx" /\ "docx" \in p.inp.libs

\* C25: first match wins inside one parse: once a metric field has been
\* set to a non-null value, no later match of the same strategy and no
\* later strategy of the same parse changes it.
C25_FirstMatchWins ==
    \A p \in UniversalCalls \cap ReturnedCalls :
        ScansPairs(p) =>
            LET stages == ScanStages(p)
            IN /\ stages[Len(stages)].m = p.result[1].m
               /\ \A i \in 1..Len(stages) : \A j \in i..Len(stages) :
                    \A f \in MetricFields :
                        stages[i].m[f] # None => stages[j].m[f] = stages[i].m[f]


\* What each source of a valid file supplies for a field when it scans
\* alone: the text patterns over the text of the document (for a
\* spreadsheet the text df.to_string() gives), the table scan over the
\* cells, the column scan over the columns.
TextValue(p, f) ==
    LET text == IF p.func = "_parse_excel"
                THEN <<[k |-> "pad", n |-> 10]>> \o DfToString(p.inp.cols)
                ELSE p.inp.text
    IN ExtractEsgMetrics(ExtractedData(p.inp.name, "", ""), text).m[f]

TableValue(p, f) ==
    ExtractFromTables(ExtractedData(p.inp.name, "", ""), p.inp.pairs).m[f]

ColumnValue(p, f) ==
    ExtractFromDataframe(ExtractedData(p.inp.name, "", ""), p.inp.cols).m[f]

KeyValue(p, f) ==
    ExtractFromJson(ExtractedData(p.inp.name, "", ""), p.inp.pairs).m[f]

ParsedValid(p) ==
    /\ p.func # ""
    /\ p.inp.obj = "file"
    /\ p.inp.pos = "start"
    /\ p.inp.kind = "valid"
    /\ ~LibraryAbsent(p)
    /\ p.func = "_parse_pdf" => "pdfplumber" \in p.inp.libs

C26_WitnessPdf ==
    \E p \in UniversalCalls \cap ReturnedCalls :
        /\ ParsedValid(p)
        /\ p.func = "_parse_pdf"
        /\ Truthy(TextValue(p, "energy_consumption_kwh"))
        /\ Truthy(TableValue(p, "energy_consumption_kwh"))
        /\ TextValue(p, "energy_consumption_kwh") # TableValue(p, "energy_consumption_kwh")
        /\ p.result[1].m["energy_consumption_kwh"] = TextValue(p, "energy_consumption_kwh")
        /\ TextValue(p, "carbon_emissions_tco2") = None
        /\ p.result[1].m["carbon_emissions_tco2"] = Some(12)


\* C23: parsing the same file twice under the same name yields identical
\* metric fields: nothing the first parse leaves behind, the read position
\* of the stream included, affects the values of the second.
C23_SecondParseSameMetrics ==
    (Len(parse) = 2 /\ parse[2].pc = "returned") =>
        parse[2].result[1].m = parse[1].result[1].m


\* The file of the attachment has an extension parse_file does not know.
Unsupported(a) == Files[fileOf[a]].ext \notin DOMAIN SupportedFormats

\* C30: a parse that ends as unsupported or as error is not a failed
\* extraction: the command drives the record to completed with confidence
\* 0 and null metrics, the record is counted among the files processed of
\* the snapshot of its company, and a record is failed only when a step
\* after parsing (the copy with to_json, the save, the cache refresh) has
\* raised.
C30_FailedOnlyAfterParsing ==
    /\ \A r \in records :
        /\ (r.processing_status = "completed" /\ Unsupported(r.att)) =>
              /\ r.confidence_score = 0
              /\ \A f \in QuickFields : r.cols[f] = None
              /\ \A m \in Aggregates(records, companyOf[r.att]) :
                    m.total_files_processed
                        = Cardinality(CompletedRows(records, companyOf[r.att]))
        /\ r.processing_status = "failed" =>
              r.error_message \in {"TypeError", "IntegrityError", "OperationalError"}
    /\ (wk[FirstRun].pc = "done" /\ wk[SecondRun].pc = "idle") =>
          \A i \in 1..Len(wk[FirstRun].attempted) :
              LET a == wk[FirstRun].attempted[i]
              IN Unsupported(a) =>
                  \E r \in RowsOf(a) :
                      r.processing_status = "completed"
                      \/ r.error_message \in {"TypeError", "IntegrityError", "OperationalError"}

====
